---- MODULE Spec2Model ----
(***************************************************************************)
(* Xandeum Atlas: the network snapshot collector                           *)
(* (src/src/lib/prpc/collector.ts) as a state machine.                     *)
(*                                                                         *)
(* One run of collectNetworkSnapshot is modelled.  JavaScript runs each    *)
(* continuation to completion, so every action is one continuation: the    *)
(* settling of one network call (its promise's outcome is recorded), or    *)
(* the code the coordinating task runs between two awaits.                 *)
(*                                                                         *)
(* Optional values (undefined / null in the source) are sequences of       *)
(* length 0 or 1: None is <<>>, Some(x) is <<x>>.                          *)
(* Times: Date.now() is in milliseconds, last_seen_timestamp in seconds.   *)
(***************************************************************************)
EXTENDS Integers, Sequences, FiniteSets, TLC

None == <<>>
Some(x) == <<x>>

Min(a, b) == IF a < b THEN a ELSE b

Range(s) == {s[i] : i \in 1..Len(s)}

(***************************************************************************)
(* Bounds of the model.                                                    *)
(***************************************************************************)
\* number of configured seeds (cfg.seeds.length)
MaxSeeds == 2
\* longest pods array one seed returns
MaxPods == 2
\* largest value of cfg.concurrency
MaxConcurrency == 2
\* how many times the clock is seen to advance during one run
MaxTicks == 1
\* longest pods_credits array the credits source returns
MaxCredits == 1
\* the longest list of pods whose stats are fetched in batches
MaxItems == 3

(***************************************************************************)
(* Program constants.                                                      *)
(***************************************************************************)
\* seeds.ts: SEED_IPS
SEED_IPS ==
  << "173.212.220.65", "161.97.97.41", "192.190.136.36", "192.190.136.38",
     "207.244.255.1", "192.190.136.28", "192.190.136.29", "173.212.203.145" >>

\* determineNodeStatus: the three age thresholds, in seconds
OnlineAge == 240
DegradedAge == 600
OfflineAge == 3600
\* Date.now() / 1000
MsPerSecond == 1000
\* pod.pubkey.slice(0, 8)
TargetLen == 8
\* PodSchema: pubkey: z.string().min(32)
PubkeyLen == 32
\* formatUptime
SecondsPerDay == 86400
SecondsPerHour == 3600
SecondsPerMinute == 60

(***************************************************************************)
(* The clock.  The run starts at StartMs; a later reading of Date.now() is *)
(* any value of Clock not before the previous reading.                     *)
(***************************************************************************)
StartMs == 5000000
TickMs == 1000
Clock == {StartMs + k * TickMs : k \in 0..MaxTicks}

(***************************************************************************)
(* Errors of the protocol client (errors.ts).  An error value carries the  *)
(* class name and the message.                                             *)
(***************************************************************************)
\* seeds.ts 23-32: PRPC_CONFIG
PRPC_PORT == 6000
DEFAULT_TIMEOUT == 8000
MAX_TIMEOUT == 30000
\* collector.ts 35: DEFAULT_CONFIG.timeout, the timeout of the calls of a run
CollectorTimeout == 8000

\* client.ts 54: the URL of a peer
BaseUrl(ip, port) == "http://" \o ip \o ":" \o ToString(port) \o "/rpc"

\* errors.ts 23-32
NewTimeoutError(timeoutMs, endpoint) ==
  [name |-> "TimeoutError",
   message |-> "Request to " \o endpoint \o " timed out after "
                 \o ToString(timeoutMs) \o "ms",
   timeoutMs |-> timeoutMs, endpoint |-> endpoint]

\* the TimeoutError of a call to the first seed
TimeoutError == NewTimeoutError(CollectorTimeout, BaseUrl(SEED_IPS[1], PRPC_PORT))
NetworkError == [name |-> "NetworkError", message |-> "HTTP 500: Internal Server Error"]
RpcError == [name |-> "RpcError", message |-> "Method not found"]
\* the message of an RpcError is the peer's text, which may be empty
RpcErrorNoText == [name |-> "RpcError", message |-> ""]
ValidationError == [name |-> "ValidationError", message |-> "Response validation failed"]

CallErrors == {TimeoutError, NetworkError, RpcError, ValidationError}

\* error instanceof TimeoutError
isTimeoutError(error) == error.name = "TimeoutError"
\* error instanceof NetworkError
isNetworkError(error) == error.name = "NetworkError"

\* the places of the colons of an address
Colons(address) == {i \in 1..Len(address) : SubSeq(address, i, i) = ":"}

\* collector.ts 229-231: address.includes(":") ? address.split(":")[0] :
\* address, the address up to its first colon
PodIp(address) ==
  IF Colons(address) # {}
    THEN SubSeq(address, 1,
                (CHOOSE i \in Colons(address) : \A k \in Colons(address) : i <= k) - 1)
    ELSE address

\* client.ts 54 and 147-148: a call that times out fails with the
\* TimeoutError of the peer it was made to
CalledAt(outcome, ip) ==
  IF outcome.status = "rejected" /\ isTimeoutError(outcome.reason)
    THEN [status |-> "rejected",
          reason |-> NewTimeoutError(outcome.reason.timeoutMs,
                                     BaseUrl(ip, PRPC_PORT))]
    ELSE outcome

(***************************************************************************)
(* Pods.  A pubkey is a string of PubkeyLen characters, kept as the        *)
(* sequence of its character codes: head repeated TargetLen times, then    *)
(* tail.  PK1 and PK3 share their first TargetLen characters.              *)
(***************************************************************************)
Pubkey(head, tail) == [i \in 1..PubkeyLen |-> IF i <= TargetLen THEN head ELSE tail]
PK1 == Pubkey(65, 49)
PK2 == Pubkey(66, 50)
PK3 == Pubkey(65, 51)
PK4 == Pubkey(67, 52)

Pod(pk, addr, ver, ts, up, st) ==
  [pubkey |-> pk, address |-> addr, version |-> ver,
   last_seen_timestamp |-> ts, uptime |-> up, storage_used |-> st]

\* PK1, seen 100 s before the run starts
PodA == Pod(PK1, "10.0.0.1:9001", Some("0.6.0"), 4900, Some(86400), Some(5))
\* PK1, an older report with other fields
PodAOld == Pod(PK1, "10.0.0.9:9001", None, 4700, None, None)
\* PK1, as recent as PodA but with other fields
PodATie == Pod(PK1, "10.0.0.7:9001", Some("0.7.0"), 4900, Some(60), None)
\* PK2, seen 239 s before the run starts; its address has no port
PodB == Pod(PK2, "10.0.0.2", Some("0.6.0"), 4761, None, Some(7))
\* PK3, seen 4000 s before the run starts
PodC == Pod(PK3, "10.0.0.3:9001", None, 1000, Some(3700), None)
\* PK2, seen 700 s before the run starts
PodD == Pod(PK2, "10.0.0.4:9001", Some("0.6.0"), 4300, None, None)
\* PK4, seen 300 s before the run starts
PodE == Pod(PK4, "10.0.0.5:9001", None, 4700, Some(12), Some(0))


\* the reports one seed can return in the full run
CorePods == {PodA, PodAOld, PodC}
\* the reports one seed can return where the merge is examined
MergePodUniverse == {PodA, PodAOld, PodATie, PodB}
\* the reports one seed can return where the stats phase is examined: four
\* pubkeys, one of each status, PK1 and PK3 with the same first 8 characters
EnrichPods == {PodA, PodC, PodD, PodE}

\* all sequences over S of length at most n
SeqUpTo(S, n) == UNION {[1..k -> S] : k \in 0..n}

(***************************************************************************)
(* Telemetry (NodeStats).  The two values differ in ram_total: zero, and a *)
(* value of which ram_used is a third.                                     *)
(***************************************************************************)
StatsBusy ==
  [active_streams |-> 3, cpu_percent |-> 12, current_index |-> 7,
   file_size |-> 1024, last_updated |-> 4990, packets_received |-> 40,
   packets_sent |-> 50, ram_total |-> 150, ram_used |-> 50,
   total_bytes |-> 4096, total_pages |-> 2, uptime |-> 93784]
StatsNoRam ==
  [active_streams |-> 0, cpu_percent |-> 0, current_index |-> 0,
   file_size |-> 0, last_updated |-> 4990, packets_received |-> 0,
   packets_sent |-> 0, ram_total |-> 0, ram_used |-> 0,
   total_bytes |-> 0, total_pages |-> 0, uptime |-> 59]
StatsUniverse == {StatsBusy, StatsNoRam}

(***************************************************************************)
(* Promises.  A settled promise is [status |-> "fulfilled", value |-> v]   *)
(* or [status |-> "rejected", reason |-> e]; a call that has not settled   *)
(* is Pending, one that has not been issued is Unstarted.                  *)
(***************************************************************************)
Pending == [status |-> "pending"]
Unstarted == [status |-> "unstarted"]
Fulfilled(v) == [status |-> "fulfilled", value |-> v]
Rejected(e) == [status |-> "rejected", reason |-> e]
IsSettled(p) == p.status \in {"fulfilled", "rejected"}

\* Promise.all: rejects with the first rejection
PromiseAll(promises) ==
  IF \E i \in 1..Len(promises) : promises[i].status = "rejected"
    THEN LET first == CHOOSE i \in 1..Len(promises) :
                        /\ promises[i].status = "rejected"
                        /\ \A j \in 1..(i - 1) : promises[j].status # "rejected"
         IN Rejected(promises[first].reason)
    ELSE Fulfilled(promises)

\* Promise.allSettled: always fulfils, with every promise's own outcome
\* a mistaken Promise.allSettled: the outcomes come in another order than
\* the promises were given
PromiseAllSettledReversed(promises) ==
  Fulfilled([k \in 1..Len(promises) |-> promises[Len(promises) + 1 - k]])

PromiseAllSettled(promises) == Fulfilled(promises)

(***************************************************************************)
(* determineNodeStatus, with the reading of Date.now() as a parameter.     *)
(* age = now / 1000 - lastSeenTimestamp; age < N is compared in            *)
(* milliseconds, which is exact.                                           *)
(***************************************************************************)
AgeLessThan(nowMs, lastSeenTimestamp, seconds) ==
  nowMs - lastSeenTimestamp * MsPerSecond < seconds * MsPerSecond

\* a mistaken classification: an age of exactly 240 s still counts as online
determineNodeStatusInclusive(lastSeenTimestamp, nowMs) ==
  IF nowMs - lastSeenTimestamp * MsPerSecond <= OnlineAge * MsPerSecond
    THEN "online"
  ELSE IF AgeLessThan(nowMs, lastSeenTimestamp, DegradedAge) THEN "degraded"
  ELSE IF AgeLessThan(nowMs, lastSeenTimestamp, OfflineAge) THEN "offline"
  ELSE "unknown"

determineNodeStatus(lastSeenTimestamp, nowMs) ==
  IF AgeLessThan(nowMs, lastSeenTimestamp, OnlineAge) THEN "online"
  ELSE IF AgeLessThan(nowMs, lastSeenTimestamp, DegradedAge) THEN "degraded"
  ELSE IF AgeLessThan(nowMs, lastSeenTimestamp, OfflineAge) THEN "offline"
  ELSE "unknown"

(***************************************************************************)
(* formatUptime.  The text is kept as its template and its two numbers.    *)
(***************************************************************************)
formatUptime(seconds) ==
  LET days == seconds \div SecondsPerDay
      hours == (seconds % SecondsPerDay) \div SecondsPerHour
      minutes == (seconds % SecondsPerHour) \div SecondsPerMinute
  IN IF days > 0 THEN [template |-> "{}d {}h", first |-> days, second |-> hours]
     ELSE IF hours > 0 THEN [template |-> "{}h {}m", first |-> hours, second |-> minutes]
     ELSE [template |-> "{}m", first |-> minutes, second |-> 0]

(***************************************************************************)
(* podMap: a JavaScript Map keeps its keys in insertion order, and set()   *)
(* on a present key keeps the key's place.  It is the sequence of its      *)
(* values.                                                                 *)
(***************************************************************************)
MapHas(map, key) == \E i \in 1..Len(map) : map[i].pubkey = key
MapIndex(map, key) == CHOOSE i \in 1..Len(map) : map[i].pubkey = key
MapGet(map, key) == IF MapHas(map, key) THEN Some(map[MapIndex(map, key)]) ELSE None
MapSet(map, pod) ==
  IF MapHas(map, pod.pubkey)
    THEN [map EXCEPT ![MapIndex(map, pod.pubkey)] = pod]
    ELSE Append(map, pod)

\* a mistaken merge rule: the last report wins
MergePodLastWins(map, pod) == MapSet(map, pod)

\* a mistaken merge rule: the first report wins
MergePodFirstWins(map, pod) ==
  IF MapHas(map, pod.pubkey) THEN map ELSE Append(map, pod)

\* a mistaken merge rule: every report is kept
MergePodNoDedup(map, pod) == Append(map, pod)

\* collector.ts 192-198: one step of the merge
MergePod(map, pod) ==
  LET existing == MapGet(map, pod.pubkey)
  IN IF existing = None \/ pod.last_seen_timestamp > existing[1].last_seen_timestamp
       THEN MapSet(map, pod)
       ELSE map

RECURSIVE MergePods(_, _)
\* collector.ts 191-199: the pods of one seed, in the order of its response
MergePods(map, pods) ==
  IF pods = <<>> THEN map
  ELSE MergePods(MergePod(map, Head(pods)), Tail(pods))

\* result.reason?.message || "Unknown error"
SeedErrorMessage(reason) ==
  IF reason.message = "" THEN "Unknown error" ELSE reason.message

CollectionError(type, target, error) ==
  [type |-> type, target |-> target, error |-> error]

\* a mistaken loop body: a failed seed is recorded under the first seed's
\* address
ProcessSeedResultFirstTarget(seeds, i, result, acc) ==
  IF result.status = "fulfilled"
    THEN [acc EXCEPT !.podMap = MergePods(acc.podMap, result.value)]
    ELSE [acc EXCEPT !.errors =
            Append(acc.errors,
                   CollectionError("seed_unreachable", seeds[1],
                                   SeedErrorMessage(result.reason)))]

\* collector.ts 179-210: the body of the loop over the seed results, for
\* seed i; acc is [podMap, errors]
ProcessSeedResult(seeds, i, result, acc) ==
  IF result.status = "fulfilled"
    THEN [acc EXCEPT !.podMap = MergePods(acc.podMap, result.value)]
    ELSE [acc EXCEPT !.errors =
            Append(acc.errors,
                   CollectionError("seed_unreachable", seeds[i],
                                   SeedErrorMessage(result.reason)))]

RECURSIVE ProcessSeedResults(_, _, _, _)
\* collector.ts 178-211: the seed results in the order of cfg.seeds, from
\* index i on
ProcessSeedResults(seeds, seedResults, i, acc) ==
  IF i > Len(seedResults) THEN acc
  ELSE ProcessSeedResults(seeds, seedResults, i + 1,
                          ProcessSeedResult(seeds, i, seedResults[i], acc))

(***************************************************************************)
(* Nodes (NodeWithStats): the pod's fields, spread, and the derived ones.  *)
(***************************************************************************)
NodeWithStats(pod, stats, status, ram_percent, uptime_formatted) ==
  [pubkey |-> pod.pubkey, address |-> pod.address, version |-> pod.version,
   last_seen_timestamp |-> pod.last_seen_timestamp, uptime |-> pod.uptime,
   storage_used |-> pod.storage_used,
   stats |-> stats, status |-> status, ram_percent |-> ram_percent,
   uptime_formatted |-> uptime_formatted, credits |-> None]

\* the pod a node was made of
PodOf(node) ==
  Pod(node.pubkey, node.address, node.version, node.last_seen_timestamp,
      node.uptime, node.storage_used)

RECURSIVE Gcd(_, _)
Gcd(a, b) == IF b = 0 THEN a ELSE Gcd(b, a % b)

\* the double (a / b) * 100.  It is no integer in general (1 / 3 gives
\* 33.33333333333333, 7 / 100 gives 7.000000000000001), so it is kept as the
\* quotient it is computed from, in lowest terms: the division is rounded
\* correctly, so equal quotients give the same double
Percent(a, b) == [percentOf |-> << a \div Gcd(a, b), b \div Gcd(a, b) >>]

\* collector.ts 247-250: (stats.ram_used / stats.ram_total) * 100 when
\* ram_total > 0, undefined otherwise
RamPercent(stats) ==
  IF stats.ram_total > 0
    THEN Some(Percent(stats.ram_used, stats.ram_total))
    ELSE None

\* a mistaken rule: the status of a pod without stats is left as classified
NoStatsStatusKept(status) == status

\* collector.ts 265: status === "online" ? "degraded" : status
NoStatsStatus(status) == IF status = "online" THEN "degraded" ELSE status

\* a mistaken classification: every pod is classified at the instant the
\* run started
NodeFromResultAtStart(entry, nowMs) ==
  LET pod == entry.item
      status == determineNodeStatus(pod.last_seen_timestamp, StartMs)
  IN IF entry.result # None
       THEN NodeWithStats(pod, entry.result, status,
                          RamPercent(entry.result[1]),
                          Some(formatUptime(entry.result[1].uptime)))
       ELSE NodeWithStats(pod, None, NoStatsStatus(status), None, None)

\* collector.ts 239-266: the node of one entry of statsResults, classified
\* at the clock reading nowMs
NodeFromResult(entry, nowMs) ==
  LET pod == entry.item
      status == determineNodeStatus(pod.last_seen_timestamp, nowMs)
  IN IF entry.result # None
       THEN NodeWithStats(pod, entry.result, status,
                          RamPercent(entry.result[1]),
                          Some(formatUptime(entry.result[1].uptime)))
       ELSE NodeWithStats(pod, None, NoStatsStatus(status), None, None)

\* collector.ts 271-277: the node of a pod when no stats are fetched
NodeWithoutStats(pod, nowMs) ==
  NodeWithStats(pod, None, determineNodeStatus(pod.last_seen_timestamp, nowMs),
                None, None)

\* pod.pubkey.slice(0, 8)
Slice8(pubkey) == SubSeq(pubkey, 1, Min(TargetLen, Len(pubkey)))

\* a mistaken rule: every failed stats call is recorded
RecordsStatsErrorAlways(error) == error # None

\* collector.ts 255: error && !isTimeoutError(error) && !isNetworkError(error)
RecordsStatsError(error) ==
  /\ error # None
  /\ ~isTimeoutError(error[1])
  /\ ~isNetworkError(error[1])

RECURSIVE StatsErrors(_)
\* collector.ts 253-261: the errors the entries of statsResults add, in order
StatsErrors(entries) ==
  IF entries = <<>> THEN <<>>
  ELSE LET entry == Head(entries)
           here == IF entry.result = None /\ RecordsStatsError(entry.error)
                     THEN << CollectionError("stats_unreachable",
                                             Slice8(entry.item.pubkey),
                                             entry.error[1].message) >>
                     ELSE <<>>
       IN here \o StatsErrors(Tail(entries))

\* collector.ts 130-141: the entry processBatch pushes for one settled call
BatchEntry(item, settled) ==
  IF settled.status = "fulfilled"
    THEN [item |-> item, result |-> Some(settled.value), error |-> None]
    ELSE [item |-> item, result |-> None, error |-> Some(settled.reason)]

\* a mistaken counter: every entry is counted, with stats or without
CountEveryEntry(entries) == Len(entries)

\* the number of entries with stats (statsSuccessCount)
CountWithStats(entries) ==
  Cardinality({i \in 1..Len(entries) : entries[i].result # None})

\* the readings of Date.now() a loop over n items can see after the reading
\* last: one per item, never going back
Readings(clock, n, last) ==
  {r \in [1..n -> clock] :
     /\ \A i \in 1..n : r[i] >= last
     /\ \A i \in 1..(n - 1) : r[i] <= r[i + 1]}

LastReading(r, last) == IF Len(r) = 0 THEN last ELSE r[Len(r)]

(***************************************************************************)
(* Credits (fetchPodsCredits).  The HTTP call rejects (the abort of the    *)
(* timer, a transport failure) or fulfils with a response: one that is not *)
(* ok, one whose body has no pods_credits array, or one whose body has.    *)
(***************************************************************************)
AbortError == [name |-> "AbortError", message |-> "This operation was aborted"]
FetchFailed == [name |-> "TypeError", message |-> "fetch failed"]

CreditEntries == {[pod_id |-> PK1, credits |-> 10], [pod_id |-> PK3, credits |-> 0]}

CreditsOutcomes ==
  {Rejected(AbortError), Rejected(FetchFailed),
   Fulfilled([ok |-> FALSE, pods_credits |-> None]),
   Fulfilled([ok |-> TRUE, pods_credits |-> None])}
  \cup {Fulfilled([ok |-> TRUE, pods_credits |-> Some(l)]) :
          l \in SeqUpTo(CreditEntries, MaxCredits)}

\* creditsMap.set(pod_id, credits): the map as a sequence of entries with
\* distinct pod_id
CreditsSet(map, entry) ==
  IF \E i \in 1..Len(map) : map[i].pod_id = entry.pod_id
    THEN [i \in 1..Len(map) |->
            IF map[i].pod_id = entry.pod_id THEN entry ELSE map[i]]
    ELSE Append(map, entry)

\* an entry of pods_credits that is null: destructuring it throws
NullEntry == [kind |-> "null"]

RECURSIVE CreditsFromList(_, _)
\* collector.ts 72-74: the loop over pods_credits; when destructuring an
\* entry throws, the catch of line 80 leaves the map as it is then
CreditsFromList(map, list) ==
  IF list = <<>> \/ Head(list) = NullEntry THEN map
  ELSE CreditsFromList(CreditsSet(map, Head(list)), Tail(list))

\* a mistaken fetch: the body is used whatever the status
fetchPodsCreditsAnyStatus(outcome) ==
  IF outcome.status = "fulfilled" /\ outcome.value.pods_credits # None
    THEN CreditsFromList(<<>>, outcome.value.pods_credits[1])
    ELSE <<>>

\* collector.ts 47-88: the map fetchPodsCredits returns; every failure is
\* caught and leaves the map empty
fetchPodsCredits(outcome) ==
  IF outcome.status = "fulfilled"
       /\ outcome.value.ok
       /\ outcome.value.pods_credits # None
    THEN CreditsFromList(<<>>, outcome.value.pods_credits[1])
    ELSE <<>>

\* a mistaken lookup: by the first 8 characters of the pubkey
CreditsGetByPrefix(map, pubkey) ==
  IF \E i \in 1..Len(map) : SubSeq(map[i].pod_id, 1, 8) = SubSeq(pubkey, 1, 8)
    THEN Some((CHOOSE e \in Range(map) :
                 SubSeq(e.pod_id, 1, 8) = SubSeq(pubkey, 1, 8)).credits)
    ELSE None

\* creditsMap.get(pubkey)
CreditsGet(map, pubkey) ==
  IF \E i \in 1..Len(map) : map[i].pod_id = pubkey
    THEN Some((CHOOSE e \in Range(map) : e.pod_id = pubkey).credits)
    ELSE None

\* collector.ts 291-297: credits merged into the nodes
WithCredits(nodeList, map) ==
  [i \in 1..Len(nodeList) |->
     LET credits == CreditsGet(map, nodeList[i].pubkey)
     IN IF credits # None
          THEN [nodeList[i] EXCEPT !.credits = credits]
          ELSE nodeList[i]]

(***************************************************************************)
(* The state of one run.                                                   *)
(***************************************************************************)
VARIABLES
  cfg,               \* the configuration, DEFAULT_CONFIG overridden
  pc,                \* the phase of the run
  now,               \* the last reading of Date.now()
  seedCalls,         \* the getPods call to each seed, in the order of cfg.seeds
  podMap,            \* pubkey -> Pod, in insertion order
  errors,            \* the CollectionError list
  pods,              \* Array.from(podMap.values())
  batchStart,        \* processBatch: i
  statsCalls,        \* the getStats call for each pod
  results,           \* processBatch: results
  nodesWithStats,    \* the node list
  classifiedAt,      \* for each node, the clock reading its status was derived from
  statsSuccessCount, \* the number of pods with stats
  creditsCall,       \* the credits fetch
  run,               \* the promise collectNetworkSnapshot returned
  statusProbe,       \* one call of determineNodeStatus: its argument, the
                     \* clock reading and its result
  rpcCall,           \* one call of PrpcClient.call on its own
  waiting,           \* a second activation of collectNetworkSnapshot, if one
                     \* was made: its locals while the first activation runs
  creditsFetch,      \* one call of fetchPodsCredits on its own
  nodeDetail,        \* one request to GET /api/nodes/[pubkey]
  rateLimited        \* one request through withRateLimit or withCronRateLimit

vars ==
  << cfg, pc, now, seedCalls, podMap, errors, pods, batchStart, statsCalls,
     results, nodesWithStats, classifiedAt, statsSuccessCount, creditsCall, run,
     statusProbe, rpcCall, waiting, creditsFetch, nodeDetail, rateLimited >>

\* what a run of collectNetworkSnapshot leaves alone
probeVars ==
  << statusProbe, rpcCall, waiting, creditsFetch, nodeDetail, rateLimited >>

Configs ==
  [seeds : {SubSeq(SEED_IPS, 1, MaxSeeds)},
   concurrency : 1..MaxConcurrency,
   fetchStats : BOOLEAN,
   fetchCredits : BOOLEAN]

\* the state at the first await: every seed's call has been issued
InitWith(configs) ==
  /\ cfg \in configs
  /\ pc = "Discovering"
  /\ now = StartMs
  /\ seedCalls = [i \in 1..Len(cfg.seeds) |-> Pending]
  /\ podMap = <<>>
  /\ errors = <<>>
  /\ pods = <<>>
  /\ batchStart = 0
  /\ statsCalls = <<>>
  /\ results = <<>>
  /\ nodesWithStats = <<>>
  /\ classifiedAt = <<>>
  /\ statsSuccessCount = 0
  /\ creditsCall = Unstarted
  /\ run = Pending
  /\ statusProbe = None
  /\ rpcCall = None
  /\ waiting = None
  /\ creditsFetch = None
  /\ nodeDetail = None
  /\ rateLimited = None

Init == InitWith(Configs)

\* collector.ts 320-327: the value returned
Snapshot(nodeList, discovered, withStats, errorList) ==
  [nodes |-> nodeList, total_discovered |-> discovered,
   total_with_stats |-> withStats, errors |-> errorList]

\* an await of a rejected promise outside any try: the run rejects
Throw(reason) ==
  /\ pc' = "Rejected"
  /\ run' = Rejected(reason)

\* collector.ts 280-327 up to the await of the credits fetch: the fetch is
\* issued, or the snapshot is returned
AfterNodes(nodeList, discovered, withStats, errorList) ==
  IF cfg.fetchCredits
    THEN /\ pc' = "CreditsEnriching"
         /\ creditsCall' = Pending
         /\ run' = run
    ELSE /\ pc' = "Complete"
         /\ creditsCall' = creditsCall
         /\ run' = Fulfilled(Snapshot(nodeList, discovered, withStats, errorList))

\* a mistaken fan-out: every remaining call is issued at once
StartBatchAll(calls, i, concurrency) ==
  [j \in 1..Len(calls) |-> IF j > i THEN Pending ELSE calls[j]]

\* a mistaken retry: with the next batch, the calls that failed are issued
\* again
StartBatchRetry(calls, i, concurrency) ==
  [j \in 1..Len(calls) |->
     IF (j > i /\ j <= i + concurrency) \/ calls[j].status = "rejected"
       THEN Pending ELSE calls[j]]

\* a mistaken fan-out: the calls of the batch are never issued
StartBatchNone(calls, i, concurrency) == calls

\* the calls of the batch that starts after index i (0-based), issued
StartBatch(calls, i, concurrency) ==
  [j \in 1..Len(calls) |->
     IF j > i /\ j <= i + concurrency THEN Pending ELSE calls[j]]

\* a mistaken wait: only the first call of the batch is awaited
BatchIndexesFirstOnly(n, i, concurrency) == (i + 1)..Min(i + 1, n)

\* the indexes of the batch that starts after index i
BatchIndexes(n, i, concurrency) == (i + 1)..Min(i + concurrency, n)

(***************************************************************************)
(* Actions.                                                                *)
(***************************************************************************)
\* what one seed's getPods call can settle with: a list of pods (the value
\* { ip, pods, total } is kept as its pods), or one of the client's errors
SeedOutcomes(podUniverse, callErrors) ==
  {Fulfilled(l) : l \in SeqUpTo(podUniverse, MaxPods)}
  \cup {Rejected(e) : e \in callErrors}

\* what one pod's getStats call can settle with
StatsOutcomes(statsUniverse, callErrors) ==
  {Fulfilled(s) : s \in statsUniverse} \cup {Rejected(e) : e \in callErrors}

\* a mistaken callback: the call to seed i settles and its callback pushes
\* the failure to errors itself
SettleSeedWithPush(outcomes) ==
  /\ UNCHANGED probeVars
  /\ pc = "Discovering"
  /\ \E i \in 1..Len(seedCalls) :
       /\ seedCalls[i] = Pending
       /\ \E outcome \in outcomes :
            /\ seedCalls' = [seedCalls EXCEPT ![i] = CalledAt(outcome, cfg.seeds[i])]
            /\ errors' =
                 IF outcome.status = "rejected"
                   THEN Append(errors,
                               CollectionError("seed_unreachable", cfg.seeds[i],
                                               SeedErrorMessage(
                                                 CalledAt(outcome, cfg.seeds[i]).reason)))
                   ELSE errors
  /\ UNCHANGED << cfg, pc, now, podMap, pods, batchStart, statsCalls,
                  results, nodesWithStats, classifiedAt, statsSuccessCount,
                  creditsCall, run >>

\* collector.ts 169-173: the getPods call to seed i settles
SettleSeedWith(outcomes) ==
  /\ UNCHANGED probeVars
  /\ pc = "Discovering"
  /\ \E i \in 1..Len(seedCalls) :
       /\ seedCalls[i] = Pending
       /\ \E outcome \in outcomes :
            seedCalls' = [seedCalls EXCEPT ![i] = CalledAt(outcome, cfg.seeds[i])]
  /\ UNCHANGED << cfg, pc, now, podMap, errors, pods, batchStart, statsCalls,
                  results, nodesWithStats, classifiedAt, statsSuccessCount,
                  creditsCall, run >>

\* what a seed's call can settle with in the full run
CoreSeedOutcomes == SeedOutcomes(CorePods, CallErrors)

SettleSeed == SettleSeedWith(CoreSeedOutcomes)

\* collector.ts 168-278: every seed call has settled; the coordinating task
\* merges the results, then issues the first batch of getStats calls or
\* builds the nodes without stats
AfterDiscoveryAt(clock) ==
  /\ UNCHANGED probeVars
  /\ pc = "Discovering"
  /\ \A i \in 1..Len(seedCalls) : IsSettled(seedCalls[i])
  /\ LET seedResults == PromiseAllSettled(seedCalls)
     IN IF seedResults.status = "rejected"
          THEN /\ Throw(seedResults.reason)
               /\ UNCHANGED << cfg, now, seedCalls, podMap, errors, pods,
                               batchStart, statsCalls, results, nodesWithStats,
                               classifiedAt, statsSuccessCount, creditsCall >>
          ELSE LET merged == ProcessSeedResults(cfg.seeds, seedResults.value, 1,
                                                [podMap |-> podMap, errors |-> errors])
                   podList == merged.podMap
               IN /\ podMap' = merged.podMap
                  /\ pods' = podList
                  /\ UNCHANGED << cfg, seedCalls >>
                  /\ IF cfg.fetchStats /\ Len(podList) > 0
                       THEN /\ pc' = "Enriching"
                            /\ errors' = merged.errors
                            /\ batchStart' = 0
                            /\ statsCalls' =
                                 StartBatch([j \in 1..Len(podList) |-> Unstarted],
                                            0, cfg.concurrency)
                            /\ UNCHANGED << now, results, nodesWithStats,
                                            classifiedAt, statsSuccessCount,
                                            creditsCall, run >>
                       ELSE \E readings \in Readings(clock, Len(podList), now) :
                              LET nodeList ==
                                    [j \in 1..Len(podList) |->
                                       NodeWithoutStats(podList[j], readings[j])]
                              IN /\ nodesWithStats' = nodeList
                                 /\ classifiedAt' = readings
                                 /\ now' = LastReading(readings, now)
                                 /\ errors' = merged.errors
                                 /\ UNCHANGED << batchStart, statsCalls, results,
                                                 statsSuccessCount >>
                                 /\ AfterNodes(nodeList, Len(merged.podMap), 0,
                                               merged.errors)

\* collector.ts 227-234: the getStats call for pod j settles
SettleStatsWith(outcomes) ==
  /\ UNCHANGED probeVars
  /\ pc = "Enriching"
  /\ \E j \in 1..Len(statsCalls) :
       /\ statsCalls[j] = Pending
       /\ \E outcome \in outcomes :
            statsCalls' =
              [statsCalls EXCEPT ![j] = CalledAt(outcome, PodIp(pods[j].address))]
  /\ UNCHANGED << cfg, pc, now, seedCalls, podMap, errors, pods, batchStart,
                  results, nodesWithStats, classifiedAt, statsSuccessCount,
                  creditsCall, run >>

\* what a pod's getStats call can settle with in the full run
CoreStatsOutcomes == StatsOutcomes({StatsBusy}, CallErrors)

SettleStats == SettleStatsWith(CoreStatsOutcomes)

\* collector.ts 126-144: every call of the current batch has settled;
\* processBatch pushes the batch's entries, then issues the next batch or,
\* after the last one, returns the results
BatchSettled ==
  /\ UNCHANGED probeVars
  /\ pc = "Enriching"
  /\ LET batch == BatchIndexes(Len(pods), batchStart, cfg.concurrency)
     IN /\ \A j \in batch : IsSettled(statsCalls[j])
        /\ LET batchResults ==
                 PromiseAllSettled([k \in 1..Cardinality(batch) |->
                                      statsCalls[batchStart + k]])
           IN IF batchResults.status = "rejected"
                THEN /\ Throw(batchResults.reason)
                     /\ UNCHANGED << cfg, now, seedCalls, podMap, errors, pods,
                                     batchStart, statsCalls, results,
                                     nodesWithStats, classifiedAt,
                                     statsSuccessCount, creditsCall >>
                ELSE LET pushed ==
                           results \o
                           [k \in 1..Cardinality(batch) |->
                              BatchEntry(pods[batchStart + k],
                                         batchResults.value[k])]
                         i == batchStart + cfg.concurrency
                     IN /\ results' = pushed
                        /\ batchStart' = i
                        /\ statsCalls' =
                             IF i < Len(pods)
                               THEN StartBatch(statsCalls, i, cfg.concurrency)
                               ELSE statsCalls
                        /\ pc' = IF i < Len(pods) THEN pc ELSE "Building"
                        /\ UNCHANGED << cfg, now, seedCalls, podMap, errors, pods,
                                        nodesWithStats, classifiedAt,
                                        statsSuccessCount, creditsCall, run >>

\* collector.ts 227 and 238-283: processBatch has returned and the run
\* resumes after its await; it builds the nodes from the results, then
\* issues the credits fetch or returns the snapshot
BuildNodesAt(clock) ==
  /\ UNCHANGED probeVars
  /\ pc = "Building"
  /\ \E readings \in Readings(clock, Len(results), now) :
       LET nodeList ==
             [j \in 1..Len(results) |-> NodeFromResult(results[j], readings[j])]
           errorList == errors \o StatsErrors(results)
       IN /\ nodesWithStats' = nodeList
          /\ classifiedAt' = readings
          /\ now' = LastReading(readings, now)
          /\ errors' = errorList
          /\ statsSuccessCount' = CountWithStats(results)
          /\ AfterNodes(nodeList, Len(podMap), CountWithStats(results), errorList)
  /\ UNCHANGED << cfg, seedCalls, podMap, pods, batchStart, statsCalls, results >>

\* the run with the clock of the full run
AfterDiscovery == AfterDiscoveryAt(Clock)

BuildNodes == BuildNodesAt(Clock)

\* the credits fetch as it stands once the headers of an outcome are there:
\* the body of a response that is ok has not been read yet; that of a
\* response that is not ok is there and is never read
Headers(outcome) ==
  IF outcome.status = "fulfilled" /\ outcome.value.ok
    THEN [outcome EXCEPT !.value.pods_credits = None]
    ELSE outcome

\* collector.ts 62-69 and 79-87: fetch settles.  With a response that is ok,
\* response.json() is called and awaited; with one that is not, or when
\* fetch rejects, the catch block is run and fetchPodsCredits returns
SettleCreditsWith(outcomes) ==
  /\ UNCHANGED probeVars
  /\ pc = "CreditsEnriching"
  /\ creditsCall = Pending
  /\ \E outcome \in outcomes :
       /\ creditsCall' = Headers(outcome)
       /\ pc' = IF outcome.status = "fulfilled" /\ outcome.value.ok
                  THEN "CreditsReading" ELSE "CreditsMerging"
  /\ UNCHANGED << cfg, now, seedCalls, podMap, errors, pods, batchStart,
                  statsCalls, results, nodesWithStats, classifiedAt,
                  statsSuccessCount, run >>

SettleCredits == SettleCreditsWith(CreditsOutcomes)

\* collector.ts 69-87: the body has been read; the map is filled and
\* fetchPodsCredits returns
CreditsBodyWith(outcomes) ==
  /\ UNCHANGED probeVars
  /\ pc = "CreditsReading"
  /\ \E outcome \in outcomes :
       /\ outcome.status = "fulfilled"
       /\ outcome.value.ok
       /\ creditsCall' = outcome
  /\ pc' = "CreditsMerging"
  /\ UNCHANGED << cfg, now, seedCalls, podMap, errors, pods, batchStart,
                  statsCalls, results, nodesWithStats, classifiedAt,
                  statsSuccessCount, run >>

CreditsBody == CreditsBodyWith(CreditsOutcomes)

\* collector.ts 283-327: fetchPodsCredits has returned its map and the run
\* resumes after its await; the credits are merged and the snapshot is
\* returned
MergeCredits ==
  /\ UNCHANGED probeVars
  /\ pc = "CreditsMerging"
  /\ LET creditsMap == fetchPodsCredits(creditsCall)
         nodeList == WithCredits(nodesWithStats, creditsMap)
     IN /\ nodesWithStats' = nodeList
        /\ pc' = "Complete"
        /\ run' = Fulfilled(Snapshot(nodeList, Len(podMap), statsSuccessCount,
                                     errors))
  /\ UNCHANGED << cfg, now, seedCalls, podMap, errors, pods, batchStart,
                  statsCalls, results, classifiedAt, statsSuccessCount,
                  creditsCall >>

Next ==
  \/ SettleSeed
  \/ AfterDiscovery
  \/ SettleStats
  \/ BatchSettled
  \/ BuildNodes
  \/ SettleCredits
  \/ CreditsBody
  \/ MergeCredits

Spec == Init /\ [][Next]_vars

TypeOK ==
  /\ pc \in {"Discovering", "Enriching", "Building", "CreditsEnriching",
            "CreditsReading", "CreditsMerging", "Complete", "Rejected"}
  /\ now \in Clock

(***************************************************************************)
(* determineNodeStatus on its own: every whole-second timestamp from       *)
(* ProbeSpan seconds after the start of the run back to ProbeSpan seconds  *)
(* beyond the last threshold, at every clock reading within ProbeSpan      *)
(* milliseconds of the start.                                              *)
(***************************************************************************)
ProbeSpan == 2
StartSec == StartMs \div MsPerSecond
ProbeTimestamps == (StartSec - OfflineAge - ProbeSpan)..(StartSec + ProbeSpan)
ProbeClock == (StartMs - ProbeSpan)..(StartMs + ProbeSpan)

runVars ==
  << cfg, pc, now, seedCalls, podMap, errors, pods, batchStart, statsCalls,
     results, nodesWithStats, classifiedAt, statsSuccessCount, creditsCall, run >>

\* collector.ts 93-101: one call of determineNodeStatus
Classify ==
  /\ statusProbe = None
  /\ UNCHANGED << rpcCall, waiting, creditsFetch, nodeDetail, rateLimited >>
  /\ \E lastSeenTimestamp \in ProbeTimestamps, nowMs \in ProbeClock :
       statusProbe' =
         Some([lastSeenTimestamp |-> lastSeenTimestamp, nowMs |-> nowMs,
               status |-> determineNodeStatus(lastSeenTimestamp, nowMs)])
  /\ UNCHANGED runVars

InitStatus ==
  InitWith({c \in Configs : c.concurrency = 1 /\ c.fetchStats /\ ~c.fetchCredits})

NextStatus == Classify

SpecStatus == InitStatus /\ [][NextStatus]_vars

\* online is the healthiest status, unknown the least healthy
Health(status) ==
  CASE status = "online" -> 3
    [] status = "degraded" -> 2
    [] status = "offline" -> 1
    [] status = "unknown" -> 0

\* the age of the probe in milliseconds
ProbeAgeMs == statusProbe[1].nowMs - statusProbe[1].lastSeenTimestamp * 1000

\* C8: determineNodeStatus returns online for an age below 240 s, degraded
\* from 240 s to below 600 s, offline from 600 s to below 3600 s and unknown
\* from 3600 s on, and a larger age (an older timestamp at the same clock
\* reading, or a later reading for the same timestamp) never gives a
\* healthier status.
C8_StatusThresholds ==
  statusProbe # None =>
    LET probe == statusProbe[1]
    IN /\ (ProbeAgeMs < 240000) => probe.status = "online"
       /\ (240000 <= ProbeAgeMs /\ ProbeAgeMs < 600000) => probe.status = "degraded"
       /\ (600000 <= ProbeAgeMs /\ ProbeAgeMs < 3600000) => probe.status = "offline"
       /\ (ProbeAgeMs >= 3600000) => probe.status = "unknown"
       /\ Health(determineNodeStatus(probe.lastSeenTimestamp - 1, probe.nowMs))
            <= Health(probe.status)
       /\ Health(determineNodeStatus(probe.lastSeenTimestamp, probe.nowMs + 1))
            <= Health(probe.status)
       /\ \A age \in {239, 240, 599, 600, 3599, 3600} :
            LET other == determineNodeStatus(StartSec - age, probe.nowMs)
            IN (StartSec - age <= probe.lastSeenTimestamp)
                 => Health(other) <= Health(probe.status)

\* C8 witness: a timestamp exactly 240 s old has been classified as degraded
C8_Witness ==
  /\ statusProbe # None
  /\ ProbeAgeMs = 240000
  /\ statusProbe[1].status = "degraded"

(***************************************************************************)
(* Properties of the full run (Spec).                                      *)
(***************************************************************************)
FailedSeeds == {i \in 1..Len(seedCalls) : seedCalls[i].status = "rejected"}
SucceededSeeds == {i \in 1..Len(seedCalls) : seedCalls[i].status = "fulfilled"}
FailedStats == {j \in 1..Len(statsCalls) : statsCalls[j].status = "rejected"}
CreditsFailed ==
  \/ creditsCall.status = "rejected"
  \/ /\ creditsCall.status = "fulfilled"
     /\ (~creditsCall.value.ok \/ creditsCall.value.pods_credits = None)

\* the entries of a list of errors with a given type and target
ErrorsOf(errorList, type, target) ==
  {k \in 1..Len(errorList) :
     errorList[k].type = type /\ errorList[k].target = target}

\* C1: collectNetworkSnapshot never rejects.  The run is never in a state
\* where its promise is rejected; the run is complete exactly when it has
\* returned a Snapshot; and in the Snapshot every failed seed is an entry of
\* errors, every pod whose getStats call failed is a node with stats = null,
\* and a failed credits fetch leaves every node without credits.
C1_NeverRejects ==
  /\ run.status # "rejected"
  /\ pc # "Rejected"
  /\ (pc = "Complete") <=> (run.status = "fulfilled")
  /\ run.status = "fulfilled" =>
       LET snapshot == run.value
       IN /\ \A i \in FailedSeeds :
               ErrorsOf(snapshot.errors, "seed_unreachable", cfg.seeds[i]) # {}
          /\ \A j \in FailedStats :
               /\ snapshot.nodes[j].pubkey = pods[j].pubkey
               /\ snapshot.nodes[j].stats = None
          /\ CreditsFailed =>
               \A j \in 1..Len(snapshot.nodes) : snapshot.nodes[j].credits = None

\* C1 witness: a Snapshot has been returned by a run in which a seed failed,
\* a getStats call failed and the credits fetch failed
C1_Witness ==
  /\ pc = "Complete"
  /\ run.status = "fulfilled"
  /\ FailedSeeds # {}
  /\ FailedStats # {}
  /\ CreditsFailed
  /\ Len(run.value.nodes) > 0

(***************************************************************************)
(* The merge examined on its own (SpecMerge): runs without stats and       *)
(* without credits, in which each seed fails or returns any list of at     *)
(* most MaxPods different reports of MergePodUniverse.                     *)
(***************************************************************************)
Injective(f) == \A a, b \in DOMAIN f : f[a] = f[b] => a = b
\* the sequences over S of length at most n without a repeated element
DistinctSeqUpTo(S, n) == {l \in SeqUpTo(S, n) : Injective(l)}

MergeSeedOutcomes ==
  {Fulfilled(l) : l \in DistinctSeqUpTo(MergePodUniverse, MaxPods)}
  \cup {Rejected(e) : e \in CallErrors \cup {RpcErrorNoText}}

SettleSeedMerge == SettleSeedWith(MergeSeedOutcomes)

InitMerge ==
  InitWith({c \in Configs : c.concurrency = 1 /\ ~c.fetchStats /\ ~c.fetchCredits})

NextMerge ==
  \/ SettleSeedMerge
  \/ AfterDiscovery

SpecMerge == InitMerge /\ [][NextMerge]_vars

\* the places of the reports of the succeeding seeds: the seed's index and
\* the index in the seed's list
ReportPlaces ==
  {<<i, k>> \in SucceededSeeds \X (1..MaxPods) : k <= Len(seedCalls[i].value)}
ReportAt(place) == seedCalls[place[1]].value[place[2]]
ReportsOf(pubkey) == {p \in ReportPlaces : ReportAt(p).pubkey = pubkey}
ReportedPubkeys == {ReportAt(p).pubkey : p \in ReportPlaces}

\* the record the merge kept for a pubkey
Kept(pubkey) == podMap[MapIndex(podMap, pubkey)]

Merged == pc \notin {"Discovering", "Rejected"}

\* the node of the returned Snapshot for a pubkey
SnapshotNode(pubkey) == CHOOSE n \in Range(run.value.nodes) : n.pubkey = pubkey

\* C2: when a pubkey is reported by two succeeding seeds, once each, with
\* timestamps t1 < t2, the record kept for it, and the node returned for it,
\* carry every field of the t2 report, whichever seed comes first; and in
\* general the kept record is one of the reports and no report of its pubkey
\* has a greater timestamp.
C2_MergeMaxWins ==
  Merged =>
    /\ \A p1, p2 \in ReportPlaces :
         LET r1 == ReportAt(p1)
             r2 == ReportAt(p2)
         IN (/\ p1[1] # p2[1]
             /\ r1.pubkey = r2.pubkey
             /\ r1.last_seen_timestamp < r2.last_seen_timestamp
             /\ ReportsOf(r1.pubkey) = {p1, p2})
              => /\ MapHas(podMap, r2.pubkey)
                 /\ Kept(r2.pubkey) = r2
                 /\ run.status = "fulfilled" => PodOf(SnapshotNode(r2.pubkey)) = r2
    /\ \A pubkey \in ReportedPubkeys :
         /\ MapHas(podMap, pubkey)
         /\ \E p \in ReportsOf(pubkey) : Kept(pubkey) = ReportAt(p)
         /\ \A p \in ReportsOf(pubkey) :
              Kept(pubkey).last_seen_timestamp >= ReportAt(p).last_seen_timestamp

\* C2 witness: the run is complete, the first seed reported PK1 with the
\* newer timestamp and the second seed reported it with the older one
C2_Witness ==
  /\ pc = "Complete"
  /\ seedCalls[1] = Fulfilled(<< PodA >>)
  /\ seedCalls[2] = Fulfilled(<< PodAOld >>)
  /\ PodOf(run.value.nodes[1]) = PodA

\* the permutations of 1..n
Perms(n) == {f \in [1..n -> 1..n] : Injective(f)}

\* the merge of a list of seed results
MergeOf(calls) ==
  ProcessSeedResults(cfg.seeds, calls, 1, [podMap |-> <<>>, errors |-> <<>>]).podMap

\* the seed results with the seeds in another order, and with the pods of
\* one seed in another order.  Every list of results that can be reached by
\* permuting is itself a reachable list of results, so a property of these
\* one-step variants in every reachable state is a property of every
\* permutation.
SourceVariants ==
  {[i \in 1..Len(seedCalls) |-> seedCalls[f[i]]] : f \in Perms(Len(seedCalls))}
PeerVariants ==
  UNION {{[seedCalls EXCEPT ![i] =
             Fulfilled([k \in 1..Len(seedCalls[i].value) |->
                          seedCalls[i].value[f[k]]])] :
            f \in Perms(Len(seedCalls[i].value))} :
         i \in SucceededSeeds}
Variants == SourceVariants \cup PeerVariants

KeyAndTime(map) == {<< r.pubkey, r.last_seen_timestamp >> : r \in Range(map)}

\* the places of the reports of a pubkey that carry its greatest timestamp
NewestOf(pubkey) ==
  {p \in ReportsOf(pubkey) :
     \A q \in ReportsOf(pubkey) :
       ReportAt(q).last_seen_timestamp <= ReportAt(p).last_seen_timestamp}

\* place p is processed before place q
Before(p, q) == p[1] < q[1] \/ (p[1] = q[1] /\ p[2] < q[2])

\* C3 as stated: every order of the seeds, and of the pods of a seed, gives
\* the same set of merged records, equal timestamps included.
C3_Original ==
  Merged => \A variant \in Variants : Range(MergeOf(variant)) = Range(podMap)

\* C3 amended: every order of the seeds, and of the pods of a seed, gives the
\* same set of (pubkey, last_seen_timestamp) pairs, and the same record for
\* every pubkey whose reports with the greatest timestamp are all equal; the
\* record kept for a pubkey is the first processed of its reports with the
\* greatest timestamp.
C3_MergeOrder ==
  Merged =>
    /\ \A variant \in Variants :
         LET other == MergeOf(variant)
         IN /\ KeyAndTime(other) = KeyAndTime(podMap)
            /\ \A pubkey \in ReportedPubkeys :
                 (\A p, q \in NewestOf(pubkey) : ReportAt(p) = ReportAt(q))
                   => other[MapIndex(other, pubkey)] = Kept(pubkey)
    /\ \A pubkey \in ReportedPubkeys :
         \E p \in NewestOf(pubkey) :
           /\ Kept(pubkey) = ReportAt(p)
           /\ \A q \in NewestOf(pubkey) : q = p \/ Before(p, q)

\* C3 witness: the merge is done and two seeds reported PK1 with the same
\* greatest timestamp and different fields, one of them together with
\* another pubkey
C3_Witness ==
  /\ Merged
  /\ seedCalls[1] = Fulfilled(<< PodB, PodATie >>)
  /\ seedCalls[2] = Fulfilled(<< PodA, PodAOld >>)
  /\ Kept(PK1) = PodATie

\* C5: the merged pubkeys are those the succeeding seeds reported, each once
\* and with one of the reported records; errors holds one seed_unreachable
\* entry for every failed seed, with the seed's address as target, and none
\* for a succeeding seed; the returned Snapshot holds the same.
C5_PartialFailure ==
  Merged =>
    /\ {r.pubkey : r \in Range(podMap)} = ReportedPubkeys
    /\ Len(podMap) = Cardinality(ReportedPubkeys)
    /\ \A r \in Range(podMap) : \E p \in ReportPlaces : ReportAt(p) = r
    /\ \A i \in 1..Len(cfg.seeds) :
         Cardinality(ErrorsOf(errors, "seed_unreachable", cfg.seeds[i]))
           = IF i \in FailedSeeds THEN 1 ELSE 0
    /\ Cardinality({k \in 1..Len(errors) : errors[k].type = "seed_unreachable"})
         = Cardinality(FailedSeeds)
    /\ run.status = "fulfilled" =>
         /\ run.value.errors = errors
         /\ {PodOf(n) : n \in Range(run.value.nodes)} = Range(podMap)
         /\ Len(run.value.nodes) = Len(podMap)

\* C5 witness: the run is complete, the first seed failed and the second
\* returned two pubkeys
C5_Witness ==
  /\ pc = "Complete"
  /\ 1 \in FailedSeeds
  /\ seedCalls[2] = Fulfilled(<< PodB, PodA >>)
  /\ Len(run.value.nodes) = 2
  /\ Len(run.value.errors) = 1

(***************************************************************************)
(* The stats phase on its own: one seed returns up to MaxItems pods with   *)
(* distinct pubkeys, no credits are fetched, and every getStats call can   *)
(* settle with stats or with any of the client's errors, in any order.     *)
(***************************************************************************)
EnrichConfigs ==
  [seeds : {SubSeq(SEED_IPS, 1, 1)},
   concurrency : 1..MaxConcurrency,
   fetchStats : BOOLEAN,
   fetchCredits : {FALSE}]

EnrichSeedOutcomes == {Fulfilled(l) : l \in DistinctSeqUpTo(EnrichPods, MaxItems)}

SettleSeedEnrich == SettleSeedWith(EnrichSeedOutcomes)

EnrichStatsOutcomes == StatsOutcomes(StatsUniverse, CallErrors)

SettleStatsEnrich == SettleStatsWith(EnrichStatsOutcomes)

InitEnrich == InitWith(EnrichConfigs)

NextEnrich ==
  \/ SettleSeedEnrich
  \/ AfterDiscovery
  \/ SettleStatsEnrich
  \/ BatchSettled
  \/ BuildNodes

SpecEnrich == InitEnrich /\ [][NextEnrich]_vars

\* the getStats calls in flight
InFlight == {j \in 1..Len(statsCalls) : statsCalls[j] = Pending}

\* C6: at every moment the number of getStats calls started and not yet
\* settled is at most cfg.concurrency, whatever the length of the pod list
\* and the order in which the calls settle.
C6_ConcurrencyBound == Cardinality(InFlight) <= cfg.concurrency

\* C6 witness: three pods with concurrency 2; the second call of the first
\* batch has settled before the first, which is still in flight, and the
\* third has not been started
C6_Witness ==
  /\ cfg.concurrency = 2
  /\ Len(statsCalls) = 3
  /\ statsCalls[1] = Pending
  /\ IsSettled(statsCalls[2])
  /\ statsCalls[3] = Unstarted

\* the number of the batch of the call at index j (0-based)
BatchOf(j) == (j - 1) \div cfg.concurrency

Started(j) == statsCalls[j] # Unstarted

\* C7: the getStats calls are issued in consecutive blocks of cfg.concurrency
\* pods in list order, the last one possibly shorter: the calls of one block
\* are issued together, no call of a block is issued before every call of
\* the blocks before it has settled with stats or with an error, and the
\* entries of results are in list order.
C7_BatchSequencing ==
  /\ \A j, k \in 1..Len(statsCalls) :
       /\ BatchOf(j) = BatchOf(k) => (Started(j) <=> Started(k))
       /\ (BatchOf(j) < BatchOf(k) /\ Started(k)) => IsSettled(statsCalls[j])
  /\ pc = "Enriching" =>
       /\ batchStart % cfg.concurrency = 0
       /\ batchStart < Len(pods)
       /\ {j \in 1..Len(statsCalls) : Started(j)}
            = 1..Min(batchStart + cfg.concurrency, Len(pods))
       /\ Len(results) = batchStart
  /\ \A k \in 1..Len(results) :
       results[k] = BatchEntry(pods[k], statsCalls[k])

\* C7 witness: three pods with concurrency 2; the first batch settled with
\* one success and one failure, and the shorter second batch is in flight
C7_Witness ==
  /\ pc = "Enriching"
  /\ cfg.concurrency = 2
  /\ Len(statsCalls) = 3
  /\ statsCalls[1].status = "rejected"
  /\ statsCalls[2].status = "fulfilled"
  /\ statsCalls[3] = Pending
  /\ batchStart = 2

\* the indexes of the pods whose getStats call was attempted and failed
StatsFailed ==
  {j \in 1..Len(pods) : cfg.fetchStats /\ statsCalls[j].status = "rejected"}

\* the node of the returned Snapshot at index j
NodeAt(j) == run.value.nodes[j]

\* the timestamp-derived classification of the pod at index j
Derived(j) == determineNodeStatus(pods[j].last_seen_timestamp, classifiedAt[j])

\* C9: in the returned Snapshot every node's status is the classification
\* of its last_seen_timestamp, except that a pod whose getStats call failed
\* and that classifies as online is degraded.  A pod whose call failed is
\* never online and has stats null; the pod seen 4000 s ago is unknown, the
\* one seen 700 s ago offline and the one seen 300 s ago degraded whether
\* their calls succeed or fail; the pod seen 100 s ago is online when its
\* call succeeds or stats are not fetched, and degraded when its call fails.
C9_StatusDowngrade ==
  run.status = "fulfilled" =>
    /\ Len(run.value.nodes) = Len(pods)
    /\ \A j \in 1..Len(pods) :
         /\ PodOf(NodeAt(j)) = pods[j]
         /\ j \in StatsFailed =>
              /\ NodeAt(j).status =
                   (IF Derived(j) = "online" THEN "degraded" ELSE Derived(j))
              /\ NodeAt(j).status # "online"
              /\ NodeAt(j).stats = None
         /\ j \notin StatsFailed => NodeAt(j).status = Derived(j)
         /\ pods[j] = PodC => NodeAt(j).status = "unknown"
         /\ pods[j] = PodD => NodeAt(j).status = "offline"
         /\ pods[j] = PodE => NodeAt(j).status = "degraded"
         /\ pods[j] = PodA =>
              NodeAt(j).status = (IF j \in StatsFailed THEN "degraded" ELSE "online")

\* C9 witness: the fresh pod and the pod seen 4000 s ago both failed and are
\* degraded and unknown; the pod seen 700 s ago succeeded and is offline
C9_Witness ==
  /\ pc = "Complete"
  /\ pods = << PodA, PodC, PodD >>
  /\ StatsFailed = {1, 2}
  /\ NodeAt(1).status = "degraded"
  /\ NodeAt(2).status = "unknown"
  /\ NodeAt(3).status = "offline"
  /\ NodeAt(3).stats # None

\* the indexes of the pods with the first 8 characters target whose
\* getStats call failed with an error of the given name
FailedWith(target, name) ==
  {j \in StatsFailed :
     /\ Slice8(pods[j].pubkey) = target
     /\ statsCalls[j].reason.name = name}

\* the TimeoutError of the getStats call to a pod
TimeoutOf(pod) ==
  NewTimeoutError(CollectorTimeout, BaseUrl(PodIp(pod.address), PRPC_PORT))

\* the stats_unreachable entries of an error list for a target with a message
StatsEntries(errorList, target, message) ==
  {k \in ErrorsOf(errorList, "stats_unreachable", target) :
     errorList[k].error = message}

\* C10: the errors of the returned Snapshot hold, for every 8-character
\* pubkey prefix, as many stats_unreachable entries with the validation
\* message as pods with that prefix failed with a ValidationError, and none
\* with the message of a timeout or of a network error; the entries number
\* the pods that failed with an error that is neither; every pod whose call
\* failed is in nodes with stats null.
C10_StatsFailureKinds ==
  (run.status = "fulfilled" /\ cfg.fetchStats) =>
    /\ \A j \in 1..Len(pods) :
         LET target == Slice8(pods[j].pubkey)
         IN /\ Len(target) = TargetLen
            /\ Cardinality(StatsEntries(run.value.errors, target,
                                        ValidationError.message))
                 = Cardinality(FailedWith(target, "ValidationError"))
            /\ StatsEntries(run.value.errors, target, TimeoutOf(pods[j]).message) = {}
            /\ StatsEntries(run.value.errors, target, NetworkError.message) = {}
    /\ Cardinality({k \in 1..Len(run.value.errors) :
                      run.value.errors[k].type = "stats_unreachable"})
         = Cardinality({j \in StatsFailed :
                          statsCalls[j].reason.name \notin
                            {"TimeoutError", "NetworkError"}})
    /\ \A j \in StatsFailed :
         /\ PodOf(NodeAt(j)) = pods[j]
         /\ NodeAt(j).stats = None

\* C10 witness: two pods with the same first 8 characters failed with a
\* ValidationError and a third pod failed with a timeout; errors holds the
\* two validation entries only
C10_Witness ==
  /\ pc = "Complete"
  /\ cfg.fetchStats
  /\ pods = << PodA, PodD, PodC >>
  /\ statsCalls[1] = Rejected(ValidationError)
  /\ statsCalls[2] = Rejected(TimeoutOf(PodD))
  /\ statsCalls[3] = Rejected(ValidationError)
  /\ Len(run.value.errors) = 2
  /\ run.value.errors[1].target = Slice8(PK1)
  /\ run.value.errors[2].target = Slice8(PK1)

\* C4: in every returned Snapshot no two nodes have the same pubkey,
\* whatever pubkeys the seeds have in common and also when one seed lists a
\* pubkey more than once.
C4_UniquePubkeys ==
  run.status = "fulfilled" =>
    \A i, j \in 1..Len(run.value.nodes) :
      run.value.nodes[i].pubkey = run.value.nodes[j].pubkey => i = j

\* C4 witness: the first seed listed PK1 twice, the second listed PK1 and
\* PK3, and the returned Snapshot has one node for each of the two pubkeys
C4_Witness ==
  /\ pc = "Complete"
  /\ seedCalls[1] = Fulfilled(<< PodAOld, PodA >>)
  /\ seedCalls[2] = Fulfilled(<< PodA, PodC >>)
  /\ Len(run.value.nodes) = 2
  /\ run.value.nodes[1].pubkey = PK1
  /\ run.value.nodes[2].pubkey = PK3

(***************************************************************************)
(* PrpcClient.call on its own.  A JSON value is a record tagged with its   *)
(* kind; the fields of an object are a function from its keys.  A number   *)
(* is kept as twice its value, so that halves can be told from integers.   *)
(***************************************************************************)
JNull == [kind |-> "null"]
JNum(x2) == [kind |-> "number", x2 |-> x2]
JInt(n) == JNum(2 * n)
JStr(s) == [kind |-> "string", str |-> s]
JArr(items) == [kind |-> "array", items |-> items]
JObj(fields) == [kind |-> "object", fields |-> fields]

\* value[key], None standing for undefined
Field(value, key) ==
  IF key \in DOMAIN value.fields THEN Some(value.fields[key]) ELSE None

\* the object with the keys in keys only: zod strips unknown keys
Strip(value, keys) ==
  JObj([k \in (DOMAIN value.fields) \cap keys |-> value.fields[k]])

\* one entry of the issues of a ValidationError, client.ts 134-137
Issue(path, message) == [path |-> path, message |-> message]

\* the type zod reports for a value that is there or not
Received(opt) == IF opt = None THEN "undefined" ELSE opt[1].kind

\* the issue of a value that is not of the expected kind, if any
KindIssues(path, opt, kind) ==
  IF opt = None THEN << Issue(path, "Required") >>
  ELSE IF opt[1].kind # kind
    THEN << Issue(path, "Expected " \o kind \o ", received " \o opt[1].kind) >>
    ELSE <<>>

\* the checks on a number: .int(), .min(0), .max(100)
CheckIssue(path, value, check) ==
  CASE check = "int" ->
         IF value.x2 % 2 # 0
           THEN << Issue(path, "Expected integer, received float") >> ELSE <<>>
    [] check = "min0" ->
         IF value.x2 < 0
           THEN << Issue(path, "Number must be greater than or equal to 0") >>
           ELSE <<>>
    [] check = "max100" ->
         IF value.x2 > 2 * 100
           THEN << Issue(path, "Number must be less than or equal to 100") >>
           ELSE <<>>

RECURSIVE ChecksIssues(_, _, _)
ChecksIssues(path, value, checks) ==
  IF checks = <<>> THEN <<>>
  ELSE CheckIssue(path, value, Head(checks))
         \o ChecksIssues(path, value, Tail(checks))

\* z.number() with checks: every failing check adds its issue
NumberIssues(path, opt, checks) ==
  IF KindIssues(path, opt, "number") # <<>>
    THEN KindIssues(path, opt, "number")
    ELSE ChecksIssues(path, opt[1], checks)

\* client.ts 226-239: the fields of NodeStatsSchema in order, with their checks
NodeStatsFields ==
  << << "active_streams", << "int", "min0" >> >>,
     << "cpu_percent", << "min0", "max100" >> >>,
     << "current_index", << "int", "min0" >> >>,
     << "file_size", << "int", "min0" >> >>,
     << "last_updated", <<>> >>,
     << "packets_received", << "int", "min0" >> >>,
     << "packets_sent", << "int", "min0" >> >>,
     << "ram_total", << "int", "min0" >> >>,
     << "ram_used", << "int", "min0" >> >>,
     << "total_bytes", << "int", "min0" >> >>,
     << "total_pages", << "int", "min0" >> >>,
     << "uptime", << "int", "min0" >> >> >>

RECURSIVE FieldsIssues(_, _)
FieldsIssues(value, fields) ==
  IF fields = <<>> THEN <<>>
  ELSE NumberIssues(Head(fields)[1], Field(value, Head(fields)[1]), Head(fields)[2])
         \o FieldsIssues(value, Tail(fields))

\* the result of safeParse
ParseOk(data) == [success |-> TRUE, data |-> data]
ParseFailed(issues) == [success |-> FALSE, issues |-> issues]

\* client.ts 226-239: NodeStatsSchema.safeParse
NodeStatsSchema(opt) ==
  IF KindIssues("", opt, "object") # <<>>
    THEN ParseFailed(KindIssues("", opt, "object"))
    ELSE LET issues == FieldsIssues(opt[1], NodeStatsFields)
         IN IF issues # <<>> THEN ParseFailed(issues)
            ELSE ParseOk(Strip(opt[1], {f[1] : f \in Range(NodeStatsFields)}))

MinPubkey == 32
MaxPubkey == 64

\* an optional field of a kind: undefined passes, null does not
OptionalOk(opt, kind) == opt = None \/ opt[1].kind = kind

\* client.ts 217-224: PodSchema.safeParse(pod).success
PodSchemaOk(pod) ==
  /\ pod.kind = "object"
  /\ LET pubkey == Field(pod, "pubkey")
     IN /\ Received(pubkey) = "string"
        /\ Len(pubkey[1].str) >= MinPubkey
        /\ Len(pubkey[1].str) <= MaxPubkey
  /\ Received(Field(pod, "address")) = "string"
  /\ OptionalOk(Field(pod, "version"), "string")
  /\ Received(Field(pod, "last_seen_timestamp")) = "number"
  /\ OptionalOk(Field(pod, "uptime"), "number")
  /\ OptionalOk(Field(pod, "storage_used"), "number")

PodKeys ==
  {"pubkey", "address", "version", "last_seen_timestamp", "uptime", "storage_used"}

RECURSIVE FilterPods(_)
\* client.ts 242-247: the pods that pass PodSchema, parsed
FilterPods(items) ==
  IF items = <<>> THEN <<>>
  ELSE (IF PodSchemaOk(Head(items)) THEN << Strip(Head(items), PodKeys) >> ELSE <<>>)
         \o FilterPods(Tail(items))

\* a mistaken schema: one entry that is no Pod fails the whole response
PodsResponseSchemaStrict(opt) ==
  IF KindIssues("", opt, "object") # <<>>
    THEN ParseFailed(KindIssues("", opt, "object"))
    ELSE LET issues ==
               KindIssues("pods", Field(opt[1], "pods"), "array")
                 \o NumberIssues("total_count", Field(opt[1], "total_count"),
                                 << "int", "min0" >>)
         IN IF issues # <<>> THEN ParseFailed(issues)
            ELSE IF \E k \in 1..Len(opt[1].fields.pods.items) :
                      ~PodSchemaOk(opt[1].fields.pods.items[k])
              THEN ParseFailed(<< Issue("pods", "Invalid input") >>)
              ELSE ParseOk(JObj([pods |-> JArr(FilterPods(opt[1].fields.pods.items)),
                                 total_count |-> opt[1].fields.total_count]))

\* client.ts 241-249: PodsResponseSchema.safeParse
PodsResponseSchema(opt) ==
  IF KindIssues("", opt, "object") # <<>>
    THEN ParseFailed(KindIssues("", opt, "object"))
    ELSE LET issues ==
               KindIssues("pods", Field(opt[1], "pods"), "array")
                 \o NumberIssues("total_count", Field(opt[1], "total_count"),
                                 << "int", "min0" >>)
         IN IF issues # <<>> THEN ParseFailed(issues)
            ELSE ParseOk(JObj([pods |-> JArr(FilterPods(opt[1].fields.pods.items)),
                               total_count |-> opt[1].fields.total_count]))

\* client.ts 256-263: the error field of the envelope
RpcErrorFieldOk(opt) ==
  \/ opt = None
  \/ opt[1].kind = "null"
  \/ /\ opt[1].kind = "object"
     /\ Received(Field(opt[1], "code")) = "number"
     /\ Received(Field(opt[1], "message")) = "string"

\* client.ts 252-264: JsonRpcResponseSchema.safeParse(rawData).success
JsonRpcResponseSchema(rawData) ==
  /\ rawData.kind = "object"
  /\ Field(rawData, "jsonrpc") = Some(JStr("2.0"))
  /\ Received(Field(rawData, "id")) \in {"number", "string"}
  /\ RpcErrorFieldOk(Field(rawData, "error"))

\* errors.ts 16-52: the errors PrpcClient.call raises
NewNetworkError(message) == [name |-> "NetworkError", message |-> message]
NewRpcError(message, rpcCode, rpcData) ==
  [name |-> "RpcError", message |-> message, code |-> rpcCode,
   rpcCode |-> rpcCode, rpcData |-> rpcData]
NewValidationError(message, issues) ==
  [name |-> "ValidationError", message |-> message, issues |-> issues]

\* a mistaken schema: whatever is there passes
SchemaOfUnchecked(method, opt) ==
  IF opt = None THEN ParseFailed(<< Issue("", "Required") >>) ELSE ParseOk(opt[1])

\* seeds.ts 38-42 and client.ts 163-172: the schema of a method
SchemaOf(method, opt) ==
  IF method = "get-pods" THEN PodsResponseSchema(opt) ELSE NodeStatsSchema(opt)

\* the one status PrpcClient.call takes as success, client.ts 90
HttpOk == 200

\* client.ts 50-59: the constructor
ClientTimeout(optTimeout) ==
  Min(IF optTimeout = None THEN DEFAULT_TIMEOUT ELSE optTimeout[1], MAX_TIMEOUT)

\* what the transports reject with
RequestAborted == [name |-> "Error", message |-> "Request aborted"]
ConnectionRefused == [name |-> "Error", message |-> "connect ECONNREFUSED"]
FetchAbort == [name |-> "AbortError", message |-> "The operation was aborted."]
JsonSyntaxError == [name |-> "SyntaxError", message |-> "Unexpected end of JSON input"]

PrpcErrorNames ==
  {"PrpcError", "NetworkError", "TimeoutError", "RpcError", "ValidationError"}

\* a mistaken catch: every native error counts as a timeout
CatchAllTimeout(error, timeout, baseUrl) ==
  IF error.name \in PrpcErrorNames THEN Rejected(error)
  ELSE Rejected(NewTimeoutError(timeout, baseUrl))

\* client.ts 144-154: the catch block of call
Catch(error, timeout, baseUrl) ==
  IF error.name = "AbortError" THEN Rejected(NewTimeoutError(timeout, baseUrl))
  ELSE IF error.name \in PrpcErrorNames THEN Rejected(error)
  ELSE Rejected(NewNetworkError(error.message))

\* a mistaken order: a result that passes the schema is returned before the
\* error member is looked at
HandleBodyResultFirst(method, body) ==
  IF body = None THEN Rejected(JsonSyntaxError)
  ELSE LET rawData == body[1]
           validated == SchemaOf(method, Field(rawData, "result"))
       IN IF JsonRpcResponseSchema(rawData) /\ validated.success
            THEN Fulfilled(validated.data)
            ELSE IF JsonRpcResponseSchema(rawData)
                      /\ Received(Field(rawData, "error")) = "object"
              THEN Rejected(NewRpcError(rawData.fields.error.fields.message.str,
                                        rawData.fields.error.fields.code,
                                        Field(rawData.fields.error, "data")))
              ELSE Rejected(NewValidationError(
                     "Response validation failed",
                     IF JsonRpcResponseSchema(rawData) THEN validated.issues
                     ELSE << Issue("root", "Response does not match JSON-RPC 2.0 format") >>))

\* a mistaken parse: a body that is no envelope is never taken as the result
HandleBodyNoFallback(method, body) ==
  IF body = None THEN Rejected(JsonSyntaxError)
  ELSE IF ~JsonRpcResponseSchema(body[1])
    THEN Rejected(NewValidationError(
           "Invalid JSON-RPC response format",
           << Issue("root", "Response does not match JSON-RPC 2.0 format") >>))
    ELSE HandleBodyResultFirst(method, body)

\* client.ts 96-143: what call settles with once response.json() has
\* returned rawData (None when the body is not JSON), before the catch
HandleBody(method, body) ==
  IF body = None THEN Rejected(JsonSyntaxError)
  ELSE LET rawData == body[1]
       IN IF ~JsonRpcResponseSchema(rawData)
            THEN IF SchemaOf(method, Some(rawData)).success
                   THEN Fulfilled(SchemaOf(method, Some(rawData)).data)
                   ELSE Rejected(NewValidationError(
                          "Invalid JSON-RPC response format",
                          << Issue("root", "Response does not match JSON-RPC 2.0 format") >>))
            ELSE LET error == Field(rawData, "error")
                     result == Field(rawData, "result")
                     validated == SchemaOf(method, result)
                 IN IF error # None /\ error[1].kind # "null"
                      THEN Rejected(NewRpcError(error[1].fields.message.str,
                                                error[1].fields.code,
                                                Field(error[1], "data")))
                      ELSE IF ~validated.success
                        THEN Rejected(NewValidationError("Response validation failed",
                                                         validated.issues))
                        ELSE Fulfilled(validated.data)

\* client.ts 90-94: the status check
HandleStatus(status, statusText) ==
  IF status # HttpOk
    THEN Some(NewNetworkError("HTTP " \o ToString(status) \o ": " \o statusText))
    ELSE None

(***************************************************************************)
(* The responses a peer can give.                                          *)
(***************************************************************************)
\* the object with one more key
ObjWith(obj, key, value) ==
  JObj([k \in (DOMAIN obj.fields) \cup {key} |->
          IF k = key THEN value ELSE obj.fields[k]])
ObjWithout(obj, key) ==
  JObj([k \in (DOMAIN obj.fields) \ {key} |-> obj.fields[k]])

\* cpu_percent is 12.5
ValidStats ==
  JObj([active_streams |-> JInt(2), cpu_percent |-> JNum(25),
        current_index |-> JInt(7), file_size |-> JInt(1000),
        last_updated |-> JInt(4990), packets_received |-> JInt(10),
        packets_sent |-> JInt(11), ram_total |-> JInt(200),
        ram_used |-> JInt(50), total_bytes |-> JInt(0),
        total_pages |-> JInt(0), uptime |-> JInt(93784)])
\* with a key the schema does not know
StatsExtraKey == ObjWith(ValidStats, "hostname", JStr("node-1"))
\* cpu_percent 150 and no uptime: two violations
StatsTwoIssues == ObjWithout(ObjWith(ValidStats, "cpu_percent", JInt(150)), "uptime")
\* uptime -1.5 fails two checks, ram_total is a string: three violations
StatsThreeIssues ==
  ObjWith(ObjWith(ValidStats, "uptime", JNum(0 - 3)), "ram_total", JStr("200"))

LongPubkey == "A1111111111111111111111111111111"
ShortPubkey == "A111"
ValidPod ==
  JObj([pubkey |-> JStr(LongPubkey), address |-> JStr("10.0.0.1:9001"),
        last_seen_timestamp |-> JInt(4900), rank |-> JInt(1)])
PodShortKey == ObjWith(ValidPod, "pubkey", JStr(ShortPubkey))
PodNullVersion == ObjWith(ValidPod, "version", JNull)
ValidPods ==
  JObj([pods |-> JArr(<< PodShortKey, ValidPod, PodNullVersion >>),
        total_count |-> JInt(3)])
PodsNoCount == ObjWithout(ValidPods, "total_count")
PodsNotArray == ObjWith(ValidPods, "pods", JNull)

\* the result member of a response, None when it has none
Results ==
  {None, Some(JNull), Some(JStr("ok")), Some(ValidStats), Some(StatsExtraKey),
   Some(StatsTwoIssues), Some(StatsThreeIssues), Some(ValidPods),
   Some(PodsNoCount), Some(PodsNotArray)}

MethodNotFound ==
  JObj([code |-> JInt(0 - 32601), message |-> JStr("Method not found")])
\* the error member of a response: none, null, an error with or without
\* data, and one that is not an error object
ErrorMembers ==
  {None, Some(JNull), Some(MethodNotFound),
   Some(ObjWith(MethodNotFound, "data", JStr("get-stats"))), Some(JStr("boom"))}

Envelope(result, error) ==
  LET base == JObj([jsonrpc |-> JStr("2.0"), id |-> JInt(1)])
      withResult == IF result = None THEN base ELSE ObjWith(base, "result", result[1])
  IN IF error = None THEN withResult ELSE ObjWith(withResult, "error", error[1])

\* what response.json() can give: no JSON at all (None), an envelope, a
\* payload without envelope, an envelope of another version
Bodies ==
  {None}
  \cup {Some(Envelope(result, error)) : result \in Results, error \in ErrorMembers}
  \cup {Some(ValidStats), Some(ValidPods), Some(JArr(<<>>)),
        Some(StatsExtraKey), Some(StatsTwoIssues), Some(PodsNoCount),
        Some(ObjWith(Envelope(Some(ValidStats), None), "jsonrpc", JStr("1.0")))}

Statuses == {<< 200, "OK" >>, << 201, "Created" >>, << 500, "Internal Server Error" >>}

(***************************************************************************)
(* One call: the constructor and call up to the await of httpPost, then    *)
(* the events that can follow, each with the continuation it resumes.      *)
(***************************************************************************)
Transports == {"node", "fetch"}
Methods == {"get-pods", "get-stats"}
TimeoutOptions == {None, Some(5000), Some(60000)}

\* client.ts 50-88 and http-client.ts 5-41: new PrpcClient(ip, options) and
\* call(method) up to the first await: the timer is armed; the fetch is
\* issued, or nodeHttpPost awaits its imports
Call ==
  /\ rpcCall = None
  /\ \E transport \in Transports, method \in Methods, timeout \in TimeoutOptions :
       rpcCall' =
         Some([transport |-> transport, method |-> method,
               timeout |-> ClientTimeout(timeout),
               baseUrl |-> BaseUrl(SEED_IPS[1], PRPC_PORT),
               phase |-> IF transport = "node" THEN "importing" ELSE "requesting",
               aborted |-> FALSE, status |-> None, body |-> None,
               cause |-> "none", outcome |-> Pending])
  /\ UNCHANGED << runVars, statusProbe, waiting, creditsFetch, nodeDetail,
                  rateLimited >>

\* the call settles: the finally block clears the timer
Settled(call, cause, outcome) ==
  Some([call EXCEPT !.phase = "settled", !.cause = cause, !.outcome = outcome])

\* http-client.ts 39-88: the imports are done, the request is sent and the
\* abort listener is added; a signal aborted before that never calls it
ImportsDone ==
  /\ rpcCall # None
  /\ rpcCall[1].phase = "importing"
  /\ rpcCall' = Some([rpcCall[1] EXCEPT !.phase = "requesting"])
  /\ UNCHANGED << runVars, statusProbe, waiting, creditsFetch, nodeDetail,
                  rateLimited >>

\* a mistaken timer: it fires and aborts nothing
TimerFiresNoAbort ==
  /\ rpcCall # None
  /\ rpcCall[1].phase # "settled"
  /\ ~rpcCall[1].aborted
  /\ rpcCall' = Some([rpcCall[1] EXCEPT !.aborted = TRUE])
  /\ UNCHANGED << runVars, statusProbe, waiting, creditsFetch, nodeDetail,
                  rateLimited >>

\* client.ts 70: the timer fires and aborts the signal.  The fetch rejects
\* with an AbortError; the Node request rejects with Error('Request
\* aborted'), http-client.ts 80-85, when its listener is there
TimerFires ==
  /\ rpcCall # None
  /\ LET call == rpcCall[1]
         fired == [call EXCEPT !.aborted = TRUE]
     IN /\ call.phase # "settled"
        /\ ~call.aborted
        /\ rpcCall' =
             IF call.transport = "fetch"
               THEN Settled(fired, "timer", Catch(FetchAbort, call.timeout, call.baseUrl))
             ELSE IF call.phase = "requesting"
               THEN Settled(fired, "timer",
                            Catch(RequestAborted, call.timeout, call.baseUrl))
             ELSE Some(fired)
  /\ UNCHANGED << runVars, statusProbe, waiting, creditsFetch, nodeDetail,
                  rateLimited >>

\* http-client.ts 76-78 and the rejection of fetch or of the reading of its
\* body: the transport fails
TransportFails ==
  /\ rpcCall # None
  /\ LET call == rpcCall[1]
     IN /\ call.phase \in {"requesting", "reading"}
        /\ rpcCall' = Settled(call, "transport",
                              Catch(ConnectionRefused, call.timeout, call.baseUrl))
  /\ UNCHANGED << runVars, statusProbe, waiting, creditsFetch, nodeDetail,
                  rateLimited >>

\* what call does with a whole response
HandleResponse(call, status, body) ==
  IF HandleStatus(status[1], status[2]) # None
    THEN Rejected(HandleStatus(status[1], status[2])[1])
    ELSE LET settled == HandleBody(call.method, body)
         IN IF settled.status = "rejected"
              THEN Catch(settled.reason, call.timeout, call.baseUrl)
              ELSE settled

\* http-client.ts 60-74 and client.ts 90-143: the Node response has ended,
\* with its status and body; the body is parsed at once
RespondNode ==
  /\ rpcCall # None
  /\ LET call == rpcCall[1]
     IN /\ call.transport = "node"
        /\ call.phase = "requesting"
        /\ \E status \in Statuses, body \in Bodies :
             rpcCall' = Settled([call EXCEPT !.status = Some(status[1]),
                                             !.body = Some(body)],
                                "response", HandleResponse(call, status, body))
  /\ UNCHANGED << runVars, statusProbe, waiting, creditsFetch, nodeDetail,
                  rateLimited >>

\* http-client.ts 16-30 and client.ts 90-96: fetch resolves with the status;
\* a status other than 200 fails the call, else the body is awaited
RespondFetch ==
  /\ rpcCall # None
  /\ LET call == rpcCall[1]
     IN /\ call.transport = "fetch"
        /\ call.phase = "requesting"
        /\ \E status \in Statuses :
             LET got == [call EXCEPT !.status = Some(status[1])]
             IN rpcCall' =
                  IF HandleStatus(status[1], status[2]) # None
                    THEN Settled(got, "response",
                                 Rejected(HandleStatus(status[1], status[2])[1]))
                    ELSE Some([got EXCEPT !.phase = "reading"])
  /\ UNCHANGED << runVars, statusProbe, waiting, creditsFetch, nodeDetail,
                  rateLimited >>

\* client.ts 96-143: response.json() of fetch settles
BodyRead ==
  /\ rpcCall # None
  /\ LET call == rpcCall[1]
     IN /\ call.phase = "reading"
        /\ \E body \in Bodies :
             rpcCall' = Settled([call EXCEPT !.body = Some(body)], "response",
                                HandleResponse(call, << HttpOk, "OK" >>, body))
  /\ UNCHANGED << runVars, statusProbe, waiting, creditsFetch, nodeDetail,
                  rateLimited >>

InitClient ==
  InitWith({c \in Configs : c.concurrency = 1 /\ c.fetchStats /\ ~c.fetchCredits})

NextClient ==
  \/ Call
  \/ ImportsDone
  \/ TimerFires
  \/ TransportFails
  \/ RespondNode
  \/ RespondFetch
  \/ BodyRead

SpecClient == InitClient /\ [][NextClient]_vars

\* the call, once issued
TheCall == rpcCall[1]

\* the call has settled on a response with status 200 whose body is rawData
SettledOn(rawData) ==
  /\ rpcCall # None
  /\ TheCall.cause = "response"
  /\ TheCall.status = Some(HttpOk)
  /\ TheCall.body = Some(Some(rawData))

\* C11 as stated: a call whose timer fired before its response was received
\* fails with a TimeoutError carrying the timeout and the endpoint, on both
\* transports.
C11_Original ==
  (rpcCall # None /\ TheCall.aborted /\ TheCall.phase = "settled") =>
    TheCall.outcome = Rejected(NewTimeoutError(TheCall.timeout, TheCall.baseUrl))

\* C11, what the code does: when the timer ends the call, the fetch
\* transport fails with a TimeoutError carrying this.timeout (the option
\* capped at MAX_TIMEOUT, DEFAULT_TIMEOUT without option) and the endpoint
\* URL; the Node transport fails with NetworkError('Request aborted').
C11_TimerOutcome ==
  (rpcCall # None /\ TheCall.cause = "timer") =>
    /\ TheCall.timeout \in {DEFAULT_TIMEOUT, 5000, MAX_TIMEOUT}
    /\ TheCall.transport = "fetch" =>
         /\ TheCall.outcome.status = "rejected"
         /\ TheCall.outcome.reason.name = "TimeoutError"
         /\ TheCall.outcome.reason.timeoutMs = TheCall.timeout
         /\ TheCall.outcome.reason.endpoint = "http://173.212.220.65:6000/rpc"
    /\ TheCall.transport = "node" =>
         TheCall.outcome = Rejected(NewNetworkError("Request aborted"))

\* C11 witness: on the Node transport the timer fired while the request was
\* pending and the call failed with a NetworkError
C11_Witness ==
  /\ rpcCall # None
  /\ TheCall.transport = "node"
  /\ TheCall.cause = "timer"
  /\ TheCall.outcome.status = "rejected"
  /\ TheCall.outcome.reason.name = "NetworkError"

\* the error members that are error objects
ErrorObjects == {e \in ErrorMembers : Received(e) = "object"}

\* C12: a response with status 200 whose body is an envelope with an error
\* object makes the call fail with an RpcError carrying the message, code
\* and data of that object, whatever the result member is and whatever the
\* method; the call is not fulfilled and fails with no other kind.
C12_RpcErrorClassification ==
  \A result \in Results, error \in ErrorObjects :
    SettledOn(Envelope(result, error)) =>
      /\ TheCall.outcome.status = "rejected"
      /\ TheCall.outcome.reason.name = "RpcError"
      /\ TheCall.outcome.reason.message = error[1].fields.message.str
      /\ TheCall.outcome.reason.rpcCode = error[1].fields.code
      /\ TheCall.outcome.reason.rpcData = Field(error[1], "data")

\* C12 witness: get-stats was answered with valid stats as result next to an
\* error object, and failed with an RpcError
C12_Witness ==
  /\ SettledOn(Envelope(Some(ValidStats), Some(MethodNotFound)))
  /\ TheCall.method = "get-stats"
  /\ TheCall.outcome.status = "rejected"
  /\ TheCall.outcome.reason.name = "RpcError"

\* the paths of the issues of an error
Paths(error) == [i \in 1..Len(error.issues) |-> error.issues[i].path]

AllRequired == [i \in 1..Len(NodeStatsFields) |-> NodeStatsFields[i][1]]

\* the paths of the violations of each result against the schema of each
\* method, one per violation; no path when the result matches
Violations(method, result) ==
  IF method = "get-stats"
    THEN CASE result \in {Some(ValidStats), Some(StatsExtraKey)} -> <<>>
           [] result \in {None, Some(JNull), Some(JStr("ok"))} -> << "" >>
           [] result = Some(StatsTwoIssues) -> << "cpu_percent", "uptime" >>
           [] result = Some(StatsThreeIssues) -> << "ram_total", "uptime", "uptime" >>
           [] OTHER -> AllRequired
    ELSE CASE result = Some(ValidPods) -> <<>>
           [] result \in {None, Some(JNull), Some(JStr("ok"))} -> << "" >>
           [] result = Some(PodsNoCount) -> << "total_count" >>
           [] result = Some(PodsNotArray) -> << "pods" >>
           [] OTHER -> << "pods", "total_count" >>

\* what getPods and getStats can return: the valid payloads without the
\* keys and the pods the schemas drop
ValidatedPayloads ==
  {ValidStats,
   JObj([pods |-> JArr(<< ObjWithout(ValidPod, "rank") >>), total_count |-> JInt(3)])}

\* C13: a response with status 200 whose body is an envelope without error
\* and with a result that violates the schema of the method makes the call
\* fail with a ValidationError whose issues are one per violation, each with
\* the path of the violated field and a message; and whatever the response,
\* a value the call returns is a payload that passed the schema of the method.
C13_ValidationClassification ==
  /\ \A result \in Results, error \in {None, Some(JNull)} :
       SettledOn(Envelope(result, error)) =>
         IF Violations(TheCall.method, result) = <<>>
           THEN TheCall.outcome.status = "fulfilled"
           ELSE /\ TheCall.outcome.status = "rejected"
                /\ TheCall.outcome.reason.name = "ValidationError"
                /\ Paths(TheCall.outcome.reason) = Violations(TheCall.method, result)
                /\ \A i \in 1..Len(TheCall.outcome.reason.issues) :
                     DOMAIN TheCall.outcome.reason.issues[i] = {"path", "message"}
  /\ (rpcCall # None /\ TheCall.outcome.status = "fulfilled") =>
       /\ TheCall.outcome.value \in ValidatedPayloads
       /\ SchemaOf(TheCall.method, Some(TheCall.outcome.value))
            = ParseOk(TheCall.outcome.value)

\* C13 witness: get-stats was answered with stats that violate the schema
\* three times, and failed with a ValidationError of three issues
C13_Witness ==
  /\ SettledOn(Envelope(Some(StatsThreeIssues), None))
  /\ TheCall.method = "get-stats"
  /\ TheCall.outcome.status = "rejected"
  /\ TheCall.outcome.reason.name = "ValidationError"
  /\ Len(TheCall.outcome.reason.issues) = 3

\* a step issues the call at index j of calls
Issues(calls, calls2, j) ==
  /\ calls2[j] = Pending
  /\ j \in DOMAIN calls => calls[j] # Pending

\* C14: one get-pods call is issued to every configured seed and none is
\* issued later; a get-stats call is issued at most once for a pod, and
\* only to a pod that has had none; a settled call stays as it settled.  In
\* the end every merged pod has had exactly one get-stats call when
\* fetchStats is true, and none has had any when it is false.
C14_SingleAttempt ==
  /\ [](/\ Len(seedCalls) = Len(cfg.seeds)
        /\ \A i \in 1..Len(seedCalls) : seedCalls[i] # Unstarted
        /\ Len(statsCalls) \in {0, Len(pods)}
        /\ ~cfg.fetchStats => statsCalls = <<>>
        /\ (pc \in {"Building", "CreditsEnriching", "CreditsReading",
                     "CreditsMerging", "Complete"} /\ cfg.fetchStats) =>
             /\ Len(statsCalls) = Len(pods)
             /\ \A j \in 1..Len(statsCalls) : IsSettled(statsCalls[j]))
  /\ [][/\ \A i \in 1..Len(seedCalls) :
             /\ ~Issues(seedCalls, seedCalls', i)
             /\ IsSettled(seedCalls[i]) => seedCalls'[i] = seedCalls[i]
        /\ \A j \in 1..Len(statsCalls') :
             Issues(statsCalls, statsCalls', j) =>
               (j \in DOMAIN statsCalls => statsCalls[j] = Unstarted)
        /\ \A j \in 1..Len(statsCalls) :
             IsSettled(statsCalls[j]) => statsCalls'[j] = statsCalls[j]]_vars

\* C14 witness: the run is complete; one seed failed and one answered, one
\* get-stats call failed in the first batch and one succeeded in the second
C14_Witness ==
  /\ pc = "Complete"
  /\ cfg.fetchStats
  /\ cfg.concurrency = 1
  /\ seedCalls[1].status = "rejected"
  /\ seedCalls[2].status = "fulfilled"
  /\ Len(statsCalls) = 2
  /\ statsCalls[1].status = "rejected"
  /\ statsCalls[2].status = "fulfilled"

(***************************************************************************)
(* The credits phase examined (SpecCredits): one seed fails or returns up  *)
(* to MaxPods pods with distinct pubkeys; stats are fetched or not; the    *)
(* credits source fails in every way or answers with up to MaxEntries      *)
(* entries, with repeated ids, ids of no pod, and null entries.            *)
(***************************************************************************)
MaxEntries == 2

CreditsPods == {PodA, PodC, PodD}

CreditsConfigs ==
  [seeds : {SubSeq(SEED_IPS, 1, 1)},
   concurrency : 1..MaxConcurrency,
   fetchStats : BOOLEAN,
   fetchCredits : BOOLEAN]

Credit(pod_id, credits) == [pod_id |-> pod_id, credits |-> credits]

RichCreditEntries ==
  {Credit(PK1, 10), Credit(PK1, 20), Credit(PK3, 0), Credit(PK4, 5), NullEntry}

\* the credits fetch is aborted by its timer, fails in transport, answers
\* with a status that is not ok (with or without credits in the body), with
\* a body without pods_credits array, or with a list of entries
RichCreditsOutcomes ==
  {Rejected(AbortError), Rejected(FetchFailed),
   Fulfilled([ok |-> FALSE, pods_credits |-> None]),
   Fulfilled([ok |-> FALSE, pods_credits |-> Some(<< Credit(PK1, 10) >>)]),
   Fulfilled([ok |-> TRUE, pods_credits |-> None])}
  \cup {Fulfilled([ok |-> TRUE, pods_credits |-> Some(l)]) :
          l \in SeqUpTo(RichCreditEntries, MaxEntries)}

CreditsSeedOutcomes ==
  {Fulfilled(l) : l \in DistinctSeqUpTo(CreditsPods, MaxPods)}
  \cup {Rejected(TimeoutError)}

CreditsStatsOutcomes == StatsOutcomes({StatsBusy}, {TimeoutError, ValidationError})

SettleSeedCredits == SettleSeedWith(CreditsSeedOutcomes)

SettleStatsCredits == SettleStatsWith(CreditsStatsOutcomes)

SettleCreditsRich == SettleCreditsWith(RichCreditsOutcomes)

CreditsBodyRich == CreditsBodyWith(RichCreditsOutcomes)

InitCredits == InitWith(CreditsConfigs)

NextCredits ==
  \/ SettleSeedCredits
  \/ AfterDiscovery
  \/ SettleStatsCredits
  \/ BatchSettled
  \/ BuildNodes
  \/ SettleCreditsRich
  \/ CreditsBodyRich
  \/ MergeCredits

SpecCredits == InitCredits /\ [][NextCredits]_vars

\* the nodes of a run as its seed and stats calls settled and as its clock
\* was read, whatever fetchCredits is: collector.ts 238-278
NodesWithoutCredits ==
  [j \in 1..Len(pods) |->
     IF cfg.fetchStats
       THEN NodeFromResult(BatchEntry(pods[j], statsCalls[j]), classifiedAt[j])
       ELSE NodeWithoutStats(pods[j], classifiedAt[j])]

\* the Snapshot of such a run without its credits phase
SnapshotWithoutCredits ==
  Snapshot(NodesWithoutCredits, Len(pods),
           Cardinality({j \in 1..Len(statsCalls) : statsCalls[j].status = "fulfilled"}),
           ProcessSeedResults(cfg.seeds, seedCalls, 1,
                              [podMap |-> <<>>, errors |-> <<>>]).errors
             \o (IF cfg.fetchStats
                   THEN StatsErrors([j \in 1..Len(pods) |->
                                       BatchEntry(pods[j], statsCalls[j])])
                   ELSE <<>>))

\* C15: a run whose credits fetch failed (aborted, transport failure,
\* status not ok, no pods_credits array) returns the Snapshot that a run
\* with the same responses and fetchCredits false returns: the same nodes,
\* statuses, stats, counts and errors, and no node has credits.
C15_CreditsFailureSwallowed ==
  (run.status = "fulfilled" /\ (~cfg.fetchCredits \/ CreditsFailed)) =>
    /\ run.value = SnapshotWithoutCredits
    /\ \A j \in 1..Len(run.value.nodes) : run.value.nodes[j].credits = None

\* C15 witness: the credits source answered with a status that is not ok
\* and a body with credits for PK1; PK1 is a node, a stats call failed with a
\* ValidationError, and the Snapshot is the one without credits
C15_Witness ==
  /\ pc = "Complete"
  /\ cfg.fetchCredits
  /\ cfg.fetchStats
  /\ creditsCall =
       Fulfilled([ok |-> FALSE, pods_credits |-> Some(<< Credit(PK1, 10) >>)])
  /\ pods = << PodA, PodD >>
  /\ statsCalls[2] = Rejected(ValidationError)
  /\ Len(run.value.errors) = 1
  /\ run.value.nodes[1].credits = None

\* the entries the loop of fetchPodsCredits reads: those before the first
\* null entry
EntriesRead(list) ==
  SubSeq(list, 1,
         Min(Len(list),
             Cardinality({k \in 1..Len(list) :
                            \A m \in 1..k : list[m] # NullEntry})))

\* C16: a run whose credits fetch succeeded returns the nodes of the run
\* without credits phase, in the same number and order and equal in every
\* other field, where a node has the credits of the last entry read whose
\* pod_id is its whole pubkey, and no credits when there is no such entry;
\* errors, total_discovered and total_with_stats are those of the run
\* without credits phase.
C16_CreditsMerge ==
  (run.status = "fulfilled" /\ cfg.fetchCredits /\ ~CreditsFailed) =>
    LET read == EntriesRead(creditsCall.value.pods_credits[1])
        Matching(j) ==
          {k \in 1..Len(read) : read[k].pod_id = NodesWithoutCredits[j].pubkey}
        Last(S) == CHOOSE k \in S : \A m \in S : m <= k
    IN /\ Len(run.value.nodes) = Len(NodesWithoutCredits)
       /\ \A j \in 1..Len(run.value.nodes) :
            /\ [run.value.nodes[j] EXCEPT !.credits = None] = NodesWithoutCredits[j]
            /\ run.value.nodes[j].credits =
                 (IF Matching(j) = {} THEN None
                  ELSE Some(read[Last(Matching(j))].credits))
       /\ run.value.errors = SnapshotWithoutCredits.errors
       /\ run.value.total_discovered = SnapshotWithoutCredits.total_discovered
       /\ run.value.total_with_stats = SnapshotWithoutCredits.total_with_stats

\* C16 witness: PK1 is listed twice, with 10 and then 20; the node of PK1 has
\* credits 20 and the node of PK3, whose first 8 characters are those of
\* PK1, has none
C16_Witness ==
  /\ pc = "Complete"
  /\ creditsCall =
       Fulfilled([ok |-> TRUE,
                  pods_credits |-> Some(<< Credit(PK1, 10), Credit(PK1, 20) >>)])
  /\ pods = << PodC, PodA >>
  /\ run.value.nodes[1].credits = None
  /\ run.value.nodes[2].credits = Some(20)

(***************************************************************************)
(* Two activations of collectNetworkSnapshot.  The locals of an activation *)
(* (cfg, errors, podMap and what follows them) are created by the call,    *)
(* collector.ts 158-161; DEFAULT_CONFIG, the one module-level value, is    *)
(* read by the spread of line 158 and never written.  The run variables    *)
(* hold the activation whose calls settle next, `waiting` the activation   *)
(* that waits meanwhile; the clock is the one thing both read.             *)
(***************************************************************************)
TwoRunPods == {PodA, PodD}

\* each activation has one seed: any of the first MaxSeeds
TwoRunConfigs ==
  [seeds : {SubSeq(SEED_IPS, k, k) : k \in 1..MaxSeeds},
   concurrency : {1},
   fetchStats : BOOLEAN,
   fetchCredits : BOOLEAN]

TwoRunSeedOutcomes ==
  {Fulfilled(l) : l \in SeqUpTo(TwoRunPods, 1)} \cup {Rejected(TimeoutError)}

TwoRunStatsOutcomes == {Fulfilled(StatsBusy), Rejected(ValidationError)}

TwoRunCreditsOutcomes ==
  {Rejected(FetchFailed),
   Fulfilled([ok |-> TRUE, pods_credits |-> Some(<< Credit(PK1, 10) >>)])}

\* the locals of the activation that is running
Activation ==
  [cfg |-> cfg, pc |-> pc, seedCalls |-> seedCalls, podMap |-> podMap,
   errors |-> errors, pods |-> pods, batchStart |-> batchStart,
   statsCalls |-> statsCalls, results |-> results,
   nodesWithStats |-> nodesWithStats, classifiedAt |-> classifiedAt,
   statsSuccessCount |-> statsSuccessCount, creditsCall |-> creditsCall,
   run |-> run]

\* collector.ts 155-174: the locals of a call with configuration c, at its
\* first await
NewActivation(c) ==
  [cfg |-> c, pc |-> "Discovering",
   seedCalls |-> [i \in 1..Len(c.seeds) |-> Pending], podMap |-> <<>>,
   errors |-> <<>>, pods |-> <<>>, batchStart |-> 0, statsCalls |-> <<>>,
   results |-> <<>>, nodesWithStats |-> <<>>, classifiedAt |-> <<>>,
   statsSuccessCount |-> 0, creditsCall |-> Unstarted, run |-> Pending]

\* a mistaken scope: errors is one module-level array, which every
\* activation appends to
ResumeSharedErrors(a) ==
  /\ cfg' = a.cfg
  /\ pc' = a.pc
  /\ seedCalls' = a.seedCalls
  /\ podMap' = a.podMap
  /\ errors' = errors
  /\ pods' = a.pods
  /\ batchStart' = a.batchStart
  /\ statsCalls' = a.statsCalls
  /\ results' = a.results
  /\ nodesWithStats' = a.nodesWithStats
  /\ classifiedAt' = a.classifiedAt
  /\ statsSuccessCount' = a.statsSuccessCount
  /\ creditsCall' = a.creditsCall
  /\ run' = a.run

\* a mistaken scope: podMap is one module-level map, which every activation
\* merges into
ResumeSharedPodMap(a) ==
  /\ cfg' = a.cfg
  /\ pc' = a.pc
  /\ seedCalls' = a.seedCalls
  /\ podMap' = podMap
  /\ errors' = a.errors
  /\ pods' = a.pods
  /\ batchStart' = a.batchStart
  /\ statsCalls' = a.statsCalls
  /\ results' = a.results
  /\ nodesWithStats' = a.nodesWithStats
  /\ classifiedAt' = a.classifiedAt
  /\ statsSuccessCount' = a.statsSuccessCount
  /\ creditsCall' = a.creditsCall
  /\ run' = a.run

\* the continuation of activation a runs: it finds its own locals
Resume(a) ==
  /\ cfg' = a.cfg
  /\ pc' = a.pc
  /\ seedCalls' = a.seedCalls
  /\ podMap' = a.podMap
  /\ errors' = a.errors
  /\ pods' = a.pods
  /\ batchStart' = a.batchStart
  /\ statsCalls' = a.statsCalls
  /\ results' = a.results
  /\ nodesWithStats' = a.nodesWithStats
  /\ classifiedAt' = a.classifiedAt
  /\ statsSuccessCount' = a.statsSuccessCount
  /\ creditsCall' = a.creditsCall
  /\ run' = a.run

\* collector.ts 155-174: collectNetworkSnapshot is called while an
\* activation waits; the new activation runs to its first await
CallAgain ==
  /\ waiting = None
  /\ run = Pending
  /\ \E c \in TwoRunConfigs : waiting' = Some(NewActivation(c))
  /\ UNCHANGED << runVars, statusProbe, rpcCall, creditsFetch, nodeDetail,
                  rateLimited >>

\* the next call to settle is one of the other activation
Switch ==
  /\ waiting # None
  /\ waiting' = Some(Activation)
  /\ Resume(waiting[1])
  /\ UNCHANGED << now, statusProbe, rpcCall, creditsFetch, nodeDetail,
                  rateLimited >>

SettleSeedTwoRuns == SettleSeedWith(TwoRunSeedOutcomes)

SettleStatsTwoRuns == SettleStatsWith(TwoRunStatsOutcomes)

SettleCreditsTwoRuns == SettleCreditsWith(TwoRunCreditsOutcomes)

CreditsBodyTwoRuns == CreditsBodyWith(TwoRunCreditsOutcomes)

InitTwoRuns == InitWith(TwoRunConfigs)

NextTwoRuns ==
  \/ SettleSeedTwoRuns
  \/ AfterDiscovery
  \/ SettleStatsTwoRuns
  \/ BatchSettled
  \/ BuildNodes
  \/ SettleCreditsTwoRuns
  \/ CreditsBodyTwoRuns
  \/ MergeCredits
  \/ CallAgain
  \/ Switch

SpecTwoRuns == InitTwoRuns /\ [][NextTwoRuns]_vars

\* collector.ts 176-327: the Snapshot of an activation as its configuration,
\* the responses to its own calls and its own clock readings give it
SnapshotAlone(a) ==
  LET merged == ProcessSeedResults(a.cfg.seeds, a.seedCalls, 1,
                                   [podMap |-> <<>>, errors |-> <<>>])
      podList == merged.podMap
      enriched == a.cfg.fetchStats /\ Len(podList) > 0
      entries == [j \in 1..Len(podList) |->
                    BatchEntry(podList[j], a.statsCalls[j])]
      nodeList ==
        [j \in 1..Len(podList) |->
           IF enriched
             THEN NodeFromResult(entries[j], a.classifiedAt[j])
             ELSE NodeWithoutStats(podList[j], a.classifiedAt[j])]
  IN Snapshot(IF a.cfg.fetchCredits
                THEN WithCredits(nodeList, fetchPodsCredits(a.creditsCall))
                ELSE nodeList,
              Len(podList),
              IF enriched THEN CountWithStats(entries) ELSE 0,
              merged.errors \o (IF enriched THEN StatsErrors(entries) ELSE <<>>))

\* the two activations, when a second call was made
Activations == {Activation} \cup (IF waiting = None THEN {} ELSE {waiting[1]})

\* what C17 compares: the nodes under (pubkey, status, stats), and the errors
Shape(snapshot) ==
  [nodes |-> [j \in 1..Len(snapshot.nodes) |->
                << snapshot.nodes[j].pubkey, snapshot.nodes[j].status,
                   snapshot.nodes[j].stats >>],
   errors |-> snapshot.errors]

\* the configuration, the responses and the clock readings of an activation
Inputs(a) ==
  << a.cfg, a.seedCalls, a.statsCalls, a.creditsCall, a.classifiedAt >>

\* C17: two runs of collectNetworkSnapshot with the same configuration, the
\* same responses from every seed, pod and the credits source, and the same
\* clock readings return node lists equal under (pubkey, status, stats) and
\* equal errors lists, however their calls interleaved.
C17_Idempotence ==
  \A a \in Activations, b \in Activations :
    (/\ a.run.status = "fulfilled"
     /\ b.run.status = "fulfilled"
     /\ Inputs(a) = Inputs(b)) =>
      Shape(a.run.value) = Shape(b.run.value)

\* C17 witness: two runs have returned; both had the same configuration with
\* stats and credits fetched, found PodA, had its stats call fail with a
\* ValidationError, and read the clock at the same value.
C17_Witness ==
  /\ waiting # None
  /\ run.status = "fulfilled"
  /\ waiting[1].run.status = "fulfilled"
  /\ Inputs(Activation) = Inputs(waiting[1])
  /\ cfg.fetchStats /\ cfg.fetchCredits
  /\ seedCalls = << Fulfilled(<< PodA >>) >>
  /\ statsCalls = << Rejected(ValidationError) >>
  /\ Len(run.value.errors) = 1
  /\ Len(run.value.nodes) = 1

\* the pubkeys the seeds of an activation reported to it
OwnPubkeys(a) ==
  UNION {{a.seedCalls[i].value[k].pubkey : k \in 1..Len(a.seedCalls[i].value)} :
           i \in {i \in 1..Len(a.seedCalls) : a.seedCalls[i].status = "fulfilled"}}

\* the targets an error of an activation can name: its seeds for a
\* seed_unreachable entry, its pods for a stats_unreachable one
OwnTargets(a, type) ==
  IF type = "seed_unreachable"
    THEN Range(a.cfg.seeds)
    ELSE {Slice8(pubkey) : pubkey \in OwnPubkeys(a)}

\* C20: of two runs whose calls interleave, each returns the Snapshot it
\* would return alone on the responses it received: its nodes are the pods
\* its own seeds reported, its errors name its own seeds and pods, and its
\* counts are those of its own pods.
C20_RunIsolation ==
  \A a \in Activations :
    a.run.status = "fulfilled" =>
      /\ a.run.value = SnapshotAlone(a)
      /\ {a.run.value.nodes[j].pubkey : j \in 1..Len(a.run.value.nodes)}
           = OwnPubkeys(a)
      /\ a.run.value.total_discovered = Cardinality(OwnPubkeys(a))
      /\ a.run.value.total_with_stats =
           Cardinality({j \in 1..Len(a.statsCalls) :
                          a.statsCalls[j].status = "fulfilled"})
      /\ \A k \in 1..Len(a.run.value.errors) :
           a.run.value.errors[k].target
             \in OwnTargets(a, a.run.value.errors[k].type)

\* C20 witness: two overlapping runs have returned.  One asked the first
\* seed, found PodA and got its stats; the waiting asked the second seed,
\* found PodD and had its stats call fail with a ValidationError.
C20_Witness ==
  /\ waiting # None
  /\ run.status = "fulfilled"
  /\ waiting[1].run.status = "fulfilled"
  /\ cfg.seeds = SubSeq(SEED_IPS, 1, 1) /\ cfg.fetchStats
  /\ seedCalls = << Fulfilled(<< PodA >>) >>
  /\ statsCalls = << Fulfilled(StatsBusy) >>
  /\ waiting[1].cfg.seeds = SubSeq(SEED_IPS, 2, 2) /\ waiting[1].cfg.fetchStats
  /\ waiting[1].seedCalls = << Fulfilled(<< PodD >>) >>
  /\ waiting[1].statsCalls = << Rejected(ValidationError) >>
  /\ Len(run.value.errors) = 0
  /\ Len(waiting[1].run.value.errors) = 1

(***************************************************************************)
(* Total failure: every seed's getPods call rejected.                      *)
(***************************************************************************)
\* collector.ts 182-210: no seed result is fulfilled
AllSeedsFailed == \A i \in 1..Len(seedCalls) : seedCalls[i].status = "rejected"

\* collector.ts 203-209: one seed_unreachable entry per seed, in the order of
\* cfg.seeds
SeedErrors ==
  [i \in 1..Len(seedCalls) |->
     CollectionError("seed_unreachable", cfg.seeds[i],
                     SeedErrorMessage(seedCalls[i].reason))]

\* what a run in which every seed failed returns
TotalFailure ==
  /\ run.value.nodes = <<>>
  /\ run.value.total_discovered = 0
  /\ run.value.total_with_stats = 0
  /\ \A j \in 1..Len(statsCalls) : statsCalls[j] = Unstarted
  /\ run.value.errors = SeedErrors

\* the number of seed_unreachable entries of an errors list
SeedUnreachableCount(errorList) ==
  Cardinality({k \in 1..Len(errorList) : errorList[k].type = "seed_unreachable"})

\* C19 as stated: a run in which every seed failed returns no nodes, no
\* counts, issued no stats call and has exactly one seed_unreachable entry
\* per seed; and errors.length == seeds.length is false in every run in
\* which a seed succeeded.
C19_Original ==
  run.status = "fulfilled" =>
    /\ AllSeedsFailed => TotalFailure
    /\ ~AllSeedsFailed => Len(run.value.errors) # Len(cfg.seeds)

\* C19, amended: a run in which every seed failed returns no nodes, no
\* counts, issued no stats call and has exactly one seed_unreachable entry
\* per seed; the number of seed_unreachable entries equals the number of
\* seeds in exactly the runs in which every seed failed.  The length of
\* errors does not tell: stats_unreachable entries count in it too.
C19_TotalFailure ==
  run.status = "fulfilled" =>
    /\ AllSeedsFailed => TotalFailure
    /\ AllSeedsFailed <=>
         SeedUnreachableCount(run.value.errors) = Len(cfg.seeds)

\* C19 witness: both seeds failed, one by timeout and one by a network
\* error, with stats wanted; the run returned.
C19_Witness ==
  /\ run.status = "fulfilled"
  /\ Len(cfg.seeds) = 2
  /\ cfg.fetchStats
  /\ seedCalls = << Rejected(TimeoutError), Rejected(NetworkError) >>
  /\ Len(run.value.errors) = 2

(***************************************************************************)
(* Termination.  The options are those a caller can pass: any list of      *)
(* seeds, the empty one included, and any concurrency from 0 up.  With     *)
(* concurrency 0 the loop of processBatch, collector.ts 126, takes the     *)
(* empty slice items.slice(i, i), awaits Promise.allSettled([]) and adds 0 *)
(* to i: the step changes nothing.  Every call settles (a response, or the *)
(* timer of the call), and the task that awaits settled calls continues.   *)
(***************************************************************************)
TerminationPods == {PodA, PodC}

TerminationConfigs ==
  [seeds : {SubSeq(SEED_IPS, 1, k) : k \in 0..MaxSeeds},
   concurrency : 0..MaxConcurrency,
   fetchStats : BOOLEAN,
   fetchCredits : BOOLEAN]

TerminationSeedOutcomes == SeedOutcomes(TerminationPods, {TimeoutError})

SettleSeedTermination == SettleSeedWith(TerminationSeedOutcomes)

SettleStatsTermination == SettleStatsWith(CreditsStatsOutcomes)

SettleCreditsTermination == SettleCreditsWith(TwoRunCreditsOutcomes)

CreditsBodyTermination == CreditsBodyWith(TwoRunCreditsOutcomes)

InitTermination == InitWith(TerminationConfigs)

NextTermination ==
  \/ SettleSeedTermination
  \/ AfterDiscovery
  \/ SettleStatsTermination
  \/ BatchSettled
  \/ BuildNodes
  \/ SettleCreditsTermination
  \/ CreditsBodyTermination
  \/ MergeCredits

\* every call that is pending settles, and every continuation whose awaited
\* calls have settled runs
Fairness ==
  /\ WF_vars(SettleSeedTermination)
  /\ WF_vars(AfterDiscovery)
  /\ WF_vars(SettleStatsTermination)
  /\ WF_vars(BatchSettled)
  /\ WF_vars(BuildNodes)
  /\ WF_vars(SettleCreditsTermination)
  /\ WF_vars(CreditsBodyTermination)
  /\ WF_vars(MergeCredits)

SpecTermination == InitTermination /\ [][NextTermination]_vars /\ Fairness

\* collector.ts 320-327: the run returned, and every phase that was enabled
\* ran: each seed call settled, each pod's stats call settled when stats
\* are fetched, the credits fetch settled when credits are fetched
Returned ==
  /\ pc = "Complete"
  /\ run.status = "fulfilled"
  /\ \A i \in 1..Len(seedCalls) : IsSettled(seedCalls[i])
  /\ Len(run.value.nodes) = Len(pods)
  /\ cfg.fetchStats =>
       /\ Len(statsCalls) = Len(pods)
       /\ \A j \in 1..Len(statsCalls) : IsSettled(statsCalls[j])
  /\ cfg.fetchCredits => IsSettled(creditsCall)

\* C18 as stated: for every value of the options and every list of
\* discovered pods, a run whose calls all settle eventually returns, every
\* enabled phase having run.
C18_Original == <>Returned

\* C18 for the options under which it holds: with a concurrency of at least
\* 1, or with stats not fetched, a run whose calls all settle eventually
\* returns, every enabled phase having run; and with concurrency 0 a run
\* that entered the stats phase never leaves it.
C18_Termination ==
  /\ (cfg.concurrency >= 1 \/ ~cfg.fetchStats) => <>Returned
  /\ [][(cfg.concurrency = 0 /\ pc = "Enriching") => pc' = "Enriching"]_vars

\* C18 witness: two seeds, concurrency 1, stats and credits fetched; two
\* pods were found, one stats call succeeded and one timed out, the credits
\* fetch failed, and the run returned.
C18_Witness ==
  /\ Returned
  /\ Len(cfg.seeds) = 2 /\ cfg.concurrency = 1
  /\ cfg.fetchStats /\ cfg.fetchCredits
  /\ Len(pods) = 2
  /\ statsCalls[1] = Fulfilled(StatsBusy)
  /\ statsCalls[2] = Rejected(TimeoutOf(pods[2]))
  /\ creditsCall = Rejected(FetchFailed)

(***************************************************************************)
(* The order of the phases of one run.                                     *)
(***************************************************************************)
\* the place of a phase in the order of a run: discovery, the stats batches,
\* the building of the nodes, the credits fetch, the reading of its body, the
\* merge of the credits, the return
PhaseRank(phase) ==
  CASE phase = "Discovering" -> 1
    [] phase = "Enriching" -> 2
    [] phase = "Building" -> 3
    [] phase = "CreditsEnriching" -> 4
    [] phase = "CreditsReading" -> 5
    [] phase = "CreditsMerging" -> 6
    [] OTHER -> 7

\* collector.ts 212-216: the merge is finished, pods is the merged list
MergeFinished ==
  /\ \A i \in 1..Len(seedCalls) : IsSettled(seedCalls[i])
  /\ pc # "Discovering"
  /\ pods = ProcessSeedResults(cfg.seeds, seedCalls, 1,
                               [podMap |-> <<>>, errors |-> <<>>]).podMap

\* C21: no getStats call is started before every seed call has settled and
\* the merge is finished; the credits fetch is not started before every
\* getStats call has settled; the Snapshot is returned only after the
\* credits fetch, when enabled, has settled; and the phase of a run only
\* moves forward, one call never going back to unstarted.
C21_PhaseOrdering ==
  /\ []((\E j \in 1..Len(statsCalls) : statsCalls[j] # Unstarted)
          => MergeFinished)
  /\ [](creditsCall # Unstarted =>
          /\ MergeFinished
          /\ \A j \in 1..Len(statsCalls) : IsSettled(statsCalls[j])
          /\ cfg.fetchStats => Len(statsCalls) = Len(pods))
  /\ [](run.status = "fulfilled" =>
          /\ MergeFinished
          /\ \A j \in 1..Len(statsCalls) : IsSettled(statsCalls[j])
          /\ cfg.fetchCredits => IsSettled(creditsCall))
  /\ [][/\ PhaseRank(pc') >= PhaseRank(pc)
        /\ creditsCall # Unstarted => creditsCall' # Unstarted
        /\ run # Pending => run' = run]_vars

\* C21 witness: a run with two seeds, concurrency 1, stats and credits
\* fetched found two pods, so it went through two batches, and returned.
C21_Witness ==
  /\ run.status = "fulfilled"
  /\ Len(cfg.seeds) = 2 /\ cfg.concurrency = 1
  /\ cfg.fetchStats /\ cfg.fetchCredits
  /\ Len(pods) = 2
  /\ Len(statsCalls) = 2
  /\ IsSettled(creditsCall)

(***************************************************************************)
(* Who writes podMap, errors, results and the node list.                   *)
(***************************************************************************)
\* a call of the current fan-out (the seeds, or the current batch) is
\* pending
FanOutInFlight ==
  \/ \E i \in 1..Len(seedCalls) : seedCalls[i] = Pending
  \/ \E j \in 1..Len(statsCalls) : statsCalls[j] = Pending

\* C22: podMap, errors, the results of processBatch and the node list change
\* only in a step of the coordinating task taken when no call of the
\* current fan-out is pending; the settlement of a call writes none of
\* them, so the returned Snapshot is the one the responses give, with no
\* entry lost or duplicated, whatever the order of the settlements.
C22_SingleWriter ==
  /\ [][(\/ podMap' # podMap
         \/ errors' # errors
         \/ results' # results
         \/ nodesWithStats' # nodesWithStats) => ~FanOutInFlight]_vars
  /\ [](run.status = "fulfilled" =>
          /\ run.value = SnapshotAlone(Activation)
          /\ Len(run.value.errors) =
               Cardinality({i \in 1..Len(seedCalls) :
                              seedCalls[i].status = "rejected"})
               + Cardinality({j \in 1..Len(statsCalls) :
                                /\ statsCalls[j].status = "rejected"
                                /\ RecordsStatsError(Some(statsCalls[j].reason))}))

\* C22 witness: the first seed failed, the second reported two pods, the
\* stats call of one pod failed with a ValidationError; the run returned
\* two nodes and two errors.
C22_Witness ==
  /\ run.status = "fulfilled"
  /\ seedCalls[1].status = "rejected"
  /\ seedCalls[2].status = "fulfilled"
  /\ Len(statsCalls) = 2
  /\ statsCalls[1] = Rejected(ValidationError)
  /\ statsCalls[2].status = "fulfilled"
  /\ Len(run.value.nodes) = 2
  /\ Len(run.value.errors) = 2

(***************************************************************************)
(* The timers of the calls.  fetchPodsCredits arms its timer before fetch  *)
(* and clears it when fetch resolves, which is when the headers have       *)
(* arrived, collector.ts 59-63; the body is read after that, line 69.      *)
(* PrpcClient.call clears its timer in its finally block.  The remote side *)
(* answers or not; a timer that is armed fires, and the imports of         *)
(* nodeHttpPost complete.                                                  *)
(***************************************************************************)
\* collector.ts 52-88: the call settles with the map it returns
CreditsSettled(fetch, outcome) ==
  Some([fetch EXCEPT !.phase = "settled", !.outcome = outcome,
                     !.value = Some(fetchPodsCredits(outcome))])

\* collector.ts 59-62: fetchPodsCredits is called; the timer is armed and
\* the fetch is issued
FetchCredits ==
  /\ creditsFetch = None
  /\ creditsFetch' = Some([phase |-> "fetching", timer |-> "armed",
                           outcome |-> Pending, value |-> None])
  /\ UNCHANGED << runVars, statusProbe, rpcCall, waiting, nodeDetail,
                  rateLimited >>

\* collector.ts 60: the timer fires; a fetch that is pending rejects with an
\* AbortError, which the catch block swallows
CreditsTimerFires ==
  /\ creditsFetch # None
  /\ LET fetch == creditsFetch[1]
         fired == [fetch EXCEPT !.timer = "fired"]
     IN /\ fetch.timer = "armed"
        /\ creditsFetch' =
             IF fetch.phase = "fetching"
               THEN CreditsSettled(fired, Rejected(AbortError))
               ELSE Some(fired)
  /\ UNCHANGED << runVars, statusProbe, rpcCall, waiting, nodeDetail,
                  rateLimited >>

\* collector.ts 62-69: fetch resolves with the headers; the timer is cleared,
\* a status that is not ok ends the call, else the body is awaited
CreditsResponds ==
  /\ creditsFetch # None
  /\ LET fetch == creditsFetch[1]
         cleared == [fetch EXCEPT !.timer = "cleared"]
     IN /\ fetch.phase = "fetching"
        /\ \E ok \in BOOLEAN :
             creditsFetch' =
               IF ok THEN Some([cleared EXCEPT !.phase = "reading"])
               ELSE CreditsSettled(cleared,
                                   Fulfilled([ok |-> FALSE, pods_credits |-> None]))
  /\ UNCHANGED << runVars, statusProbe, rpcCall, waiting, nodeDetail,
                  rateLimited >>

\* what response.json() can settle with
BodyOutcomes ==
  {o \in CreditsOutcomes : o.status = "fulfilled" => o.value.ok}

\* collector.ts 69-78: response.json() settles, with a body or a failure
CreditsBodyRead ==
  /\ creditsFetch # None
  /\ creditsFetch[1].phase = "reading"
  /\ \E outcome \in BodyOutcomes :
       creditsFetch' = CreditsSettled(creditsFetch[1], outcome)
  /\ UNCHANGED << runVars, statusProbe, rpcCall, waiting, nodeDetail,
                  rateLimited >>

\* collector.ts 62: fetch rejects, the connection failed
CreditsTransportFails ==
  /\ creditsFetch # None
  /\ creditsFetch[1].phase = "fetching"
  /\ creditsFetch' = CreditsSettled(creditsFetch[1], Rejected(FetchFailed))
  /\ UNCHANGED << runVars, statusProbe, rpcCall, waiting, nodeDetail,
                  rateLimited >>

NextTimeouts ==
  \/ Call
  \/ ImportsDone
  \/ TimerFires
  \/ TransportFails
  \/ RespondNode
  \/ RespondFetch
  \/ BodyRead
  \/ FetchCredits
  \/ CreditsTimerFires
  \/ CreditsResponds
  \/ CreditsBodyRead
  \/ CreditsTransportFails

\* setTimeout: an armed timer fires; the dynamic imports complete
TimersFair ==
  /\ WF_vars(TimerFires)
  /\ WF_vars(CreditsTimerFires)
  /\ WF_vars(ImportsDone)

SpecTimeouts == InitClient /\ [][NextTimeouts]_vars /\ TimersFair

\* the call of PrpcClient.call has settled
CallSettled == rpcCall # None /\ rpcCall[1].phase = "settled"

\* the call of fetchPodsCredits has settled
CreditsFetchSettled == creditsFetch # None /\ creditsFetch[1].phase = "settled"

\* C23 as stated: every call of PrpcClient.call and every call of
\* fetchPodsCredits settles, whether or not the remote side answers.
C23_Original ==
  /\ rpcCall # None ~> CallSettled
  /\ creditsFetch # None ~> CreditsFetchSettled

\* C23, what the code does: a call on the fetch transport always settles;
\* a call on the Node transport whose request was sent before the timer
\* fired always settles; a credits fetch always gets past the wait for the
\* headers; and while the credits body is read the timer is cleared.
C23_TimeoutCoverage ==
  /\ (rpcCall # None /\ rpcCall[1].transport = "fetch") ~> CallSettled
  /\ (/\ rpcCall # None
      /\ rpcCall[1].transport = "node"
      /\ rpcCall[1].phase = "requesting"
      /\ ~rpcCall[1].aborted) ~> CallSettled
  /\ creditsFetch # None ~>
       (creditsFetch # None /\ creditsFetch[1].phase \in {"reading", "settled"})
  /\ []((creditsFetch # None /\ creditsFetch[1].phase = "reading")
          => creditsFetch[1].timer = "cleared")

\* C23 witness: on the fetch transport the headers came with status 200, the
\* body did not, and the timer ended the call with a TimeoutError; the
\* credits fetch was ended by its timer before the headers.
C23_Witness ==
  /\ CallSettled
  /\ rpcCall[1].transport = "fetch"
  /\ rpcCall[1].status = Some(HttpOk)
  /\ rpcCall[1].body = None
  /\ rpcCall[1].cause = "timer"
  /\ rpcCall[1].outcome.reason.name = "TimeoutError"
  /\ CreditsFetchSettled
  /\ creditsFetch[1].outcome = Rejected(AbortError)
  /\ creditsFetch[1].value = Some(<<>>)

(***************************************************************************)
(* GET /api/nodes/[pubkey] (the node-detail route).  The request is one    *)
(* whose pubkey passed the length test of line 22; the route collects a    *)
(* snapshot with stats and without credits, looks the node up and, when    *)
(* the node has no stats, asks the pod once more.  `node` is the object    *)
(* held by snapshot.nodes, so what the route writes to it is written to    *)
(* the snapshot.                                                           *)
(***************************************************************************)
DetailPods == {PodA, PodC}

\* the pubkey parameter: of a fresh pod, of a stale pod, of no pod
DetailPubkeys == {PK1, PK3, PK2}

\* part_013 31-35: collectNetworkSnapshot({ timeout, concurrency, fetchStats })
DetailConfigs ==
  {c \in Configs : c.concurrency = MaxConcurrency /\ c.fetchStats /\ ~c.fetchCredits}

\* n.pubkey.startsWith(pubkey)
StartsWith(string, prefix) ==
  /\ Len(prefix) <= Len(string)
  /\ SubSeq(string, 1, Len(prefix)) = prefix

\* part_013 38-40: the index of the first node that matches, 0 when none does
FindNode(nodeList, pubkey) ==
  LET matches == {j \in 1..Len(nodeList) :
                    \/ nodeList[j].pubkey = pubkey
                    \/ StartsWith(nodeList[j].pubkey, pubkey)}
  IN IF matches = {} THEN 0
     ELSE CHOOSE j \in matches : \A k \in matches : j <= k

\* a mistaken patch: the status and the formatted uptime follow the stats
DetailPatchAll(node, stats) ==
  [node EXCEPT !.stats = Some(stats), !.ram_percent = RamPercent(stats),
               !.uptime_formatted = Some(formatUptime(stats.uptime)),
               !.status = "online"]

\* part_013 55-58: node.stats = stats; node.ram_percent = ...
DetailPatch(node, stats) ==
  [node EXCEPT !.stats = Some(stats), !.ram_percent = RamPercent(stats)]

\* part_013 64-74 and 42-47: the response
DetailResponse(request, index, status, node) ==
  Some([request EXCEPT !.phase = "done", !.index = index, !.status = status,
                       !.node = node])

\* part_013 31-53: the snapshot has been returned; the node is looked up.
\* Not found: 404.  Found with stats, or without address: 200.  Else
\* getStats is called on the pod
Lookup ==
  /\ nodeDetail = None
  /\ run.status = "fulfilled"
  /\ \E pubkey \in DetailPubkeys :
       LET request == [pubkey |-> pubkey, phase |-> "fetching", index |-> 0,
                       status |-> 0, node |-> None]
           j == FindNode(run.value.nodes, pubkey)
       IN nodeDetail' =
            IF j = 0 THEN DetailResponse(request, 0, 404, None)
            ELSE IF run.value.nodes[j].stats = None
                    /\ run.value.nodes[j].address # ""
              THEN Some([request EXCEPT !.index = j])
            ELSE DetailResponse(request, j, 200, Some(run.value.nodes[j]))
  /\ UNCHANGED << runVars, statusProbe, rpcCall, waiting, creditsFetch,
                  rateLimited >>

\* part_013 53: new PrpcClient(ip, { timeout: 8000 })
RouteStatsTimeout == 8000

\* what the getStats call of the route can settle with: stats, a timeout on
\* either transport, an error of the peer
DetailStatsOutcomes ==
  StatsOutcomes(StatsUniverse,
                {NewTimeoutError(RouteStatsTimeout, BaseUrl(SEED_IPS[1], PRPC_PORT)),
                 NewNetworkError("Request aborted"), RpcError})

\* part_013 54-74: the getStats call of the route settles; stats are written
\* to the node, a failure is swallowed; 200
DetailStatsSettles ==
  /\ nodeDetail # None
  /\ nodeDetail[1].phase = "fetching"
  /\ \E outcome \in DetailStatsOutcomes :
       LET j == nodeDetail[1].index
           settled == CalledAt(outcome, PodIp(run.value.nodes[j].address))
           node == IF settled.status = "fulfilled"
                     THEN DetailPatch(run.value.nodes[j], settled.value)
                     ELSE run.value.nodes[j]
       IN /\ run' = [run EXCEPT !.value.nodes[j] = node]
          /\ nodeDetail' = DetailResponse(nodeDetail[1], j, 200, Some(node))
  /\ UNCHANGED << cfg, pc, now, seedCalls, podMap, errors, pods, batchStart,
                  statsCalls, results, nodesWithStats, classifiedAt,
                  statsSuccessCount, creditsCall >>
  /\ UNCHANGED << statusProbe, rpcCall, waiting, creditsFetch, rateLimited >>

\* part_013 32: the timeout the route gives to collectNetworkSnapshot
DetailTimeout == 10000

\* a call of the collection that does not answer within DetailTimeout: the
\* TimeoutError of the fetch transport, the NetworkError of the Node transport
DetailTimeouts ==
  {NewTimeoutError(DetailTimeout, BaseUrl(SEED_IPS[1], PRPC_PORT)),
   NewNetworkError("Request aborted")}

DetailSeedOutcomes == SeedOutcomes(DetailPods, DetailTimeouts)

DetailCallOutcomes ==
  StatsOutcomes({StatsBusy}, DetailTimeouts \cup {ValidationError})

SettleSeedDetail == SettleSeedWith(DetailSeedOutcomes)

SettleStatsDetail == SettleStatsWith(DetailCallOutcomes)

InitDetail == InitWith(DetailConfigs)

NextDetail ==
  \/ SettleSeedDetail
  \/ AfterDiscovery
  \/ SettleStatsDetail
  \/ BatchSettled
  \/ BuildNodes
  \/ Lookup
  \/ DetailStatsSettles

SpecDetail == InitDetail /\ [][NextDetail]_vars

\* the Snapshot as collectNetworkSnapshot returned it
Collected == SnapshotAlone(Activation)

\* C24 as stated: once returned, the Snapshot is not changed; the node the
\* route answers with is the collector's, and no node has stats together
\* with a status other than the one its timestamp gives.
C24_Original ==
  run.status = "fulfilled" =>
    /\ run.value = Collected
    /\ \A j \in 1..Len(run.value.nodes) :
         run.value.nodes[j].stats # None =>
           run.value.nodes[j].status =
             determineNodeStatus(run.value.nodes[j].last_seen_timestamp,
                                 classifiedAt[j])
    /\ (nodeDetail # None /\ nodeDetail[1].status = 200) =>
         nodeDetail[1].node = Some(Collected.nodes[nodeDetail[1].index])

\* C24, what the code does: the route leaves the counts, the errors and
\* every node but the one looked up as collected; the node looked up is
\* changed only when it was collected without stats and the route's own
\* getStats call succeeded, and then in stats and ram_percent only: its
\* status and uptime_formatted stay those of a node without stats.  The
\* node of the response is the node of the Snapshot.
C24_DetailRoute ==
  run.status = "fulfilled" =>
    /\ run.value.errors = Collected.errors
    /\ run.value.total_discovered = Collected.total_discovered
    /\ run.value.total_with_stats = Collected.total_with_stats
    /\ Len(run.value.nodes) = Len(Collected.nodes)
    /\ \A j \in 1..Len(run.value.nodes) :
         \/ run.value.nodes[j] = Collected.nodes[j]
         \/ /\ nodeDetail # None
            /\ nodeDetail[1].phase = "done"
            /\ nodeDetail[1].index = j
            /\ Collected.nodes[j].stats = None
            /\ \E stats \in StatsUniverse :
                 run.value.nodes[j] =
                   [Collected.nodes[j] EXCEPT !.stats = Some(stats),
                                              !.ram_percent = RamPercent(stats)]
    /\ (nodeDetail # None /\ nodeDetail[1].status = 200) =>
         nodeDetail[1].node = Some(run.value.nodes[nodeDetail[1].index])
    /\ (nodeDetail # None /\ nodeDetail[1].status = 404) =>
         \A j \in 1..Len(run.value.nodes) :
           run.value.nodes[j].pubkey # nodeDetail[1].pubkey

\* C24 witness: PodA, seen 100 seconds ago, was collected without stats and
\* so as degraded; the route's getStats call succeeded, and the response
\* has the node with stats, status degraded and no formatted uptime.
C24_Witness ==
  /\ nodeDetail # None
  /\ nodeDetail[1].status = 200
  /\ nodeDetail[1].pubkey = PK1
  /\ nodeDetail[1].node # None
  /\ nodeDetail[1].node[1].stats = Some(StatsBusy)
  /\ nodeDetail[1].node[1].status = "degraded"
  /\ nodeDetail[1].node[1].uptime_formatted = None
  /\ nodeDetail[1].node[1].last_seen_timestamp = PodA.last_seen_timestamp
  /\ run.value.nodes[nodeDetail[1].index].stats = Some(StatsBusy)

(***************************************************************************)
(* Bodies that are no JSON-RPC 2.0 envelope.                               *)
(***************************************************************************)
\* the bodies that are JSON and fail JsonRpcResponseSchema
BareBodies == {body[1] : body \in {b \in Bodies : b # None /\ ~JsonRpcResponseSchema(b[1])}}

\* the call has settled on a response with status 200 whose body is not JSON
SettledOnNoJson ==
  /\ rpcCall # None
  /\ TheCall.cause = "response"
  /\ TheCall.status = Some(HttpOk)
  /\ TheCall.body = Some(None)

\* C25: for a response with status 200 whose body is JSON and no JSON-RPC
\* 2.0 envelope, the call takes the body as the result when the body passes
\* the schema of the method: it returns what the same body returns as the
\* result member of an envelope, a payload that passed the schema; else it
\* fails with ValidationError 'Invalid JSON-RPC response format' and one
\* issue at path root.  A body that is not JSON fails the call with
\* NetworkError.
C25_EnvelopeFallback ==
  /\ \A rawData \in BareBodies :
       SettledOn(rawData) =>
         IF Violations(TheCall.method, Some(rawData)) = <<>>
           THEN /\ TheCall.outcome.status = "fulfilled"
                /\ TheCall.outcome.value \in ValidatedPayloads
                /\ TheCall.outcome =
                     HandleBody(TheCall.method,
                                Some(Envelope(Some(rawData), None)))
           ELSE /\ TheCall.outcome.status = "rejected"
                /\ TheCall.outcome.reason.name = "ValidationError"
                /\ TheCall.outcome.reason.message =
                     "Invalid JSON-RPC response format"
                /\ Paths(TheCall.outcome.reason) = << "root" >>
  /\ SettledOnNoJson =>
       /\ TheCall.outcome.status = "rejected"
       /\ TheCall.outcome.reason.name = "NetworkError"
       /\ TheCall.outcome.reason.message = JsonSyntaxError.message

\* C25 witness: get-stats was answered with bare stats that carry a key the
\* schema does not know, and returned the stats without it.
C25_Witness ==
  /\ SettledOn(StatsExtraKey)
  /\ TheCall.method = "get-stats"
  /\ TheCall.outcome = Fulfilled(ValidStats)

(***************************************************************************)
(* Discovery from what the seeds answer.  Every seed's getPods call gets a *)
(* 200 response with one of PodsBodies; the call settles as                *)
(* PrpcClient.call settles on that body, and the run goes on with the pods *)
(* the call returned.  Stats are fetched for the merged pods as in the     *)
(* run itself.                                                             *)
(***************************************************************************)
OtherPubkey == "B2222222222222222222222222222222"
\* a second peer, with a version and an uptime of 1.5, seen 100 s earlier
\* than ValidPod's
ValidPodB ==
  ObjWith(ObjWith(ObjWith(ObjWith(ValidPod, "pubkey", JStr(OtherPubkey)),
                          "version", JStr("0.6.0")),
                  "last_seen_timestamp", JInt(4800)),
          "uptime", JNum(3))
PodNoAddress == ObjWithout(ValidPodB, "address")
\* six entries, the second and the fourth are Pods
MixedPods ==
  JObj([pods |-> JArr(<< PodShortKey, ValidPodB, PodNullVersion, ValidPod,
                         PodNoAddress, JStr("pod") >>),
        total_count |-> JInt(6)])
\* no entry is a Pod
AllBadPods ==
  JObj([pods |-> JArr(<< PodShortKey, JNull >>), total_count |-> JInt(2)])

\* the characters of the pubkeys the peers report
PubkeyChars ==
  [s \in {LongPubkey, OtherPubkey} |->
     IF s = LongPubkey
       THEN [i \in 1..PubkeyLen |-> IF i = 1 THEN 65 ELSE 49]
       ELSE [i \in 1..PubkeyLen |-> IF i = 1 THEN 66 ELSE 50]]

\* the number a JSON number parses to: itself.  A whole number is the
\* integer; one that is not (1.5) is kept as the count of its halves
NumberOf(value) ==
  IF value.x2 % 2 = 0 THEN value.x2 \div 2 ELSE [halves |-> value.x2]

\* an optional string or number of a parsed pod
OptionalStr(opt) == IF opt = None THEN None ELSE Some(opt[1].str)
OptionalNum(opt) == IF opt = None THEN None ELSE Some(NumberOf(opt[1]))

\* types/index.ts Pod: a parsed entry of response.pods
PodOfJson(pod) ==
  Pod(PubkeyChars[pod.fields.pubkey.str], pod.fields.address.str,
      OptionalStr(Field(pod, "version")),
      NumberOf(pod.fields.last_seen_timestamp),
      OptionalNum(Field(pod, "uptime")),
      OptionalNum(Field(pod, "storage_used")))

\* what a seed answers to get-pods: pods arrays with and without entries
\* that are no Pod, inside an envelope or bare, a result without
\* total_count, one whose pods is no array, an RPC error, no JSON
PodsBodies ==
  {Some(Envelope(Some(result), None)) :
     result \in {MixedPods, ValidPods, AllBadPods, PodsNoCount, PodsNotArray}}
  \cup {Some(MixedPods), Some(Envelope(None, Some(MethodNotFound))), None}

\* collector.ts 169-173: the seed callback on a 200 response with this
\* body; the body is kept with the outcome
GetPods(body) ==
  LET settled == HandleBody("get-pods", body)
  IN IF settled.status = "fulfilled"
       THEN [status |-> "fulfilled",
             value |-> [k \in 1..Len(settled.value.fields.pods.items) |->
                          PodOfJson(settled.value.fields.pods.items[k])],
             body |-> body]
       ELSE [status |-> "rejected",
             reason |-> Catch(settled.reason, DEFAULT_TIMEOUT,
                              BaseUrl(SEED_IPS[1], PRPC_PORT)).reason,
             body |-> body]

PodsConfigs ==
  [seeds : {SubSeq(SEED_IPS, 1, n) : n \in 1..MaxSeeds},
   concurrency : {MaxConcurrency},
   fetchStats : BOOLEAN,
   fetchCredits : {FALSE}]

PodsSeedOutcomes == {GetPods(body) : body \in PodsBodies}

SettleSeedPods == SettleSeedWith(PodsSeedOutcomes)

SettleStatsPods == SettleStatsWith(EnrichStatsOutcomes)

InitPods == InitWith(PodsConfigs)

NextPods ==
  \/ SettleSeedPods
  \/ AfterDiscovery
  \/ SettleStatsPods
  \/ BatchSettled
  \/ BuildNodes

SpecPods == InitPods /\ [][NextPods]_vars

\* the entries of each pods array that are Pods, in the order of the array
ParsedPodB ==
  Pod(PubkeyChars[OtherPubkey], "10.0.0.1:9001", Some("0.6.0"), 4800,
      Some([halves |-> 3]), None)
ParsedPod == Pod(PubkeyChars[LongPubkey], "10.0.0.1:9001", None, 4900, None, None)
PodsArrays == {MixedPods, ValidPods, AllBadPods}
ValidEntries(result) ==
  CASE result = MixedPods -> << ParsedPodB, ParsedPod >>
    [] result = ValidPods -> << ParsedPod >>
    [] result = AllBadPods -> <<>>

\* seed i got a 200 response whose result is this one
SeedAnswered(i, result) ==
  /\ IsSettled(seedCalls[i])
  /\ seedCalls[i].body = Some(Envelope(Some(result), None))

ErrorsOfType(errorList, type) ==
  {k \in 1..Len(errorList) : errorList[k].type = type}

\* C26: a get-pods response whose pods array holds entries that are no Pod
\* makes the call succeed with exactly the entries that are Pods, in the
\* order of the array; the seed is not recorded as failed, the dropped
\* entries leave no error, and no error of a run has the type
\* validation_error: every error is a seed_unreachable of a seed whose call
\* failed or a stats_unreachable of a pod that was kept.
C26_DroppedEntries ==
  /\ \A i \in 1..Len(seedCalls) : \A result \in PodsArrays :
       SeedAnswered(i, result) =>
         /\ seedCalls[i].status = "fulfilled"
         /\ seedCalls[i].value = ValidEntries(result)
  /\ \A k \in 1..Len(errors) :
       errors[k].type \in {"seed_unreachable", "stats_unreachable"}
  /\ run.status = "fulfilled" =>
       /\ \A k \in 1..Len(run.value.errors) :
            run.value.errors[k].type # "validation_error"
       /\ Cardinality(ErrorsOfType(run.value.errors, "seed_unreachable"))
            = Cardinality({i \in 1..Len(seedCalls) : seedCalls[i].status = "rejected"})
       /\ \A k \in ErrorsOfType(run.value.errors, "seed_unreachable") :
            \E i \in 1..Len(seedCalls) :
              /\ seedCalls[i].status = "rejected"
              /\ run.value.errors[k].target = cfg.seeds[i]
       /\ \A k \in ErrorsOfType(run.value.errors, "stats_unreachable") :
            \E j \in 1..Len(run.value.nodes) :
              run.value.errors[k].target = Slice8(run.value.nodes[j].pubkey)
       /\ \A j \in 1..Len(run.value.nodes) :
            run.value.nodes[j].pubkey \in {ParsedPodB.pubkey, ParsedPod.pubkey}

\* the first seed answered six entries of which two are Pods, the second
\* an array without any; the run returns the two nodes and no error
C26_Witness ==
  /\ Len(seedCalls) = 2
  /\ SeedAnswered(1, MixedPods)
  /\ SeedAnswered(2, AllBadPods)
  /\ run.status = "fulfilled"
  /\ Len(run.value.nodes) = 2
  /\ run.value.nodes[1].pubkey = ParsedPodB.pubkey
  /\ run.value.nodes[2].pubkey = ParsedPod.pubkey
  /\ run.value.total_discovered = 2
  /\ run.value.errors = <<>>

(***************************************************************************)
(* The stats phase: which call's outcome ends up on which node.            *)
(***************************************************************************)
\* the pods whose failed getStats call is recorded in errors
RecordedFailures ==
  {j \in 1..Len(statsCalls) :
     /\ statsCalls[j].status = "rejected"
     /\ ~isTimeoutError(statsCalls[j].reason)
     /\ ~isNetworkError(statsCalls[j].reason)}

\* the k-th of them, in the order of the pods
RecordedFailure(k) ==
  CHOOSE j \in RecordedFailures :
    Cardinality({i \in RecordedFailures : i <= j}) = k

\* the outcome of pod j's call is what node carries
CarriesOutcome(node, j) ==
  /\ node.stats = IF statsCalls[j].status = "fulfilled"
                    THEN Some(statsCalls[j].value) ELSE None
  /\ node.ram_percent = IF statsCalls[j].status = "fulfilled"
                          THEN RamPercent(statsCalls[j].value) ELSE None

\* C27: in whatever order the getStats calls of a batch settle, a call that
\* settles changes its own slot only, each entry of the results pairs pod j
\* with the outcome of pod j's call, and the returned nodes are the merged
\* pods in their order, each once, node j carrying the stats of call j or
\* none when that call failed, with the recorded failures in errors in the
\* order of the pods and under the pod's own target and message.
C27_Attribution ==
  /\ [](\A k \in 1..Len(results) :
          /\ results[k].item = pods[k]
          /\ results[k].result = IF statsCalls[k].status = "fulfilled"
                                   THEN Some(statsCalls[k].value) ELSE None
          /\ results[k].error = IF statsCalls[k].status = "rejected"
                                  THEN Some(statsCalls[k].reason) ELSE None)
  /\ [](run.status = "fulfilled" =>
          /\ Len(run.value.nodes) = Len(seedCalls[1].value)
          /\ \A j \in 1..Len(run.value.nodes) :
               /\ PodOf(run.value.nodes[j]) = seedCalls[1].value[j]
               /\ \A i \in 1..Len(run.value.nodes) :
                    i # j => run.value.nodes[i].pubkey # run.value.nodes[j].pubkey
               /\ cfg.fetchStats => CarriesOutcome(run.value.nodes[j], j)
               /\ ~cfg.fetchStats => run.value.nodes[j].stats = None
          /\ Len(run.value.errors) = Cardinality(RecordedFailures)
          /\ \A k \in 1..Len(run.value.errors) :
               run.value.errors[k] =
                 CollectionError("stats_unreachable",
                                 Slice8(pods[RecordedFailure(k)].pubkey),
                                 statsCalls[RecordedFailure(k)].reason.message))
  /\ [][\A j \in 1..Len(statsCalls) :
          (statsCalls[j] = Pending /\ statsCalls'[j] # Pending) =>
            /\ results' = results
            /\ pods' = pods
            /\ errors' = errors
            /\ \A i \in 1..Len(statsCalls) :
                 i # j => statsCalls'[i] = statsCalls[i]]_vars

\* three pods fetched two at a time: the first call failed with an RPC
\* error, the second returned StatsBusy, the third StatsNoRam
C27_Witness ==
  /\ run.status = "fulfilled"
  /\ cfg.concurrency = 2
  /\ seedCalls[1] = Fulfilled(<< PodC, PodA, PodD >>)
  /\ statsCalls = << Rejected(RpcError), Fulfilled(StatsBusy), Fulfilled(StatsNoRam) >>
  /\ Len(run.value.nodes) = 3
  /\ run.value.nodes[1].pubkey = PodC.pubkey
  /\ run.value.nodes[1].stats = None
  /\ run.value.nodes[2].pubkey = PodA.pubkey
  /\ run.value.nodes[2].stats = Some(StatsBusy)
  /\ run.value.nodes[3].pubkey = PodD.pubkey
  /\ run.value.nodes[3].stats = Some(StatsNoRam)
  /\ Len(run.value.errors) = 1
  /\ run.value.errors[1].target = Slice8(PodC.pubkey)

(***************************************************************************)
(* The counts of the returned Snapshot.                                    *)
(***************************************************************************)
NodesWithStats(snapshot) ==
  {j \in 1..Len(snapshot.nodes) : snapshot.nodes[j].stats # None}

\* C28: in every returned Snapshot total_discovered is the length of nodes
\* and the number of distinct pubkeys the successful seeds reported;
\* total_with_stats is the number of nodes whose stats is not null, at most
\* total_discovered, and 0 when fetchStats is false.
C28_CountConsistency ==
  run.status = "fulfilled" =>
    /\ run.value.total_discovered = Len(run.value.nodes)
    /\ run.value.total_discovered = Cardinality(ReportedPubkeys)
    /\ run.value.total_with_stats = Cardinality(NodesWithStats(run.value))
    /\ run.value.total_with_stats <= run.value.total_discovered
    /\ ~cfg.fetchStats => run.value.total_with_stats = 0

\* two seeds reported PK1 three times and PK3 once; of the two nodes one
\* has stats, the call of the other failed
C28_Witness ==
  /\ run.status = "fulfilled"
  /\ cfg.fetchStats
  /\ seedCalls[1] = Fulfilled(<< PodAOld, PodA >>)
  /\ seedCalls[2] = Fulfilled(<< PodA, PodC >>)
  /\ run.value.total_discovered = 2
  /\ Len(run.value.nodes) = 2
  /\ run.value.total_with_stats = 1
  /\ run.value.nodes[1].stats = None
  /\ run.value.nodes[2].stats # None

(***************************************************************************)
(* The clock while the node list is built.  determineNodeStatus reads      *)
(* Date.now() once for every pod, and the clock may have moved on between  *)
(* two pods by up to MaxStall ticks.  One seed reports pods whose          *)
(* timestamps are a second apart, close to the online threshold.           *)
(***************************************************************************)
MaxStall == 2
LongClock == {StartMs + k * TickMs : k \in 0..MaxStall}

\* PK4, seen 238 s before the run starts: a second newer than PodB
PodF == Pod(PK4, "10.0.0.6:9001", None, 4762, None, None)
ClockPods == {PodB, PodF, PodC}

ClockConfigs ==
  [seeds : {SubSeq(SEED_IPS, 1, 1)},
   concurrency : 1..MaxConcurrency,
   fetchStats : BOOLEAN,
   fetchCredits : {FALSE}]

ClockSeedOutcomes == {Fulfilled(l) : l \in DistinctSeqUpTo(ClockPods, MaxPods)}

ClockStatsOutcomes == StatsOutcomes({StatsBusy}, {TimeoutError})

SettleSeedClock == SettleSeedWith(ClockSeedOutcomes)

SettleStatsClock == SettleStatsWith(ClockStatsOutcomes)

AfterDiscoveryClock == AfterDiscoveryAt(LongClock)

BuildNodesClock == BuildNodesAt(LongClock)

InitClock == InitWith(ClockConfigs)

NextClock ==
  \/ SettleSeedClock
  \/ AfterDiscoveryClock
  \/ SettleStatsClock
  \/ BatchSettled
  \/ BuildNodesClock

SpecClock == InitClock /\ [][NextClock]_vars

\* two nodes with the same telemetry outcome: both with stats or both
\* without
SameOutcome(a, b) == (a.stats = None) <=> (b.stats = None)

\* the status of an age in milliseconds, downgraded for a pod whose stats
\* were asked for and not obtained
StatusOfAge(ageMs, downgraded) ==
  LET status == IF ageMs < OnlineAge * MsPerSecond THEN "online"
                ELSE IF ageMs < DegradedAge * MsPerSecond THEN "degraded"
                ELSE IF ageMs < OfflineAge * MsPerSecond THEN "offline"
                ELSE "unknown"
  IN IF downgraded /\ status = "online" THEN "degraded" ELSE status

\* C29 as stated: of two nodes of one returned Snapshot with the same
\* telemetry outcome, the one with the newer last_seen_timestamp never has
\* a less healthy status than the other.
C29_Original ==
  run.status = "fulfilled" =>
    \A i, j \in 1..Len(run.value.nodes) :
      (/\ SameOutcome(run.value.nodes[i], run.value.nodes[j])
       /\ run.value.nodes[j].last_seen_timestamp
            > run.value.nodes[i].last_seen_timestamp)
        => Health(run.value.nodes[j].status) >= Health(run.value.nodes[i].status)

\* C29, what the code keeps: every node is classified at its own reading of
\* the clock, the readings never go back in the order of the list, and the
\* newer of two nodes with the same outcome is at least as healthy as the
\* older one whenever the clock moved on between their two readings by no
\* more than their timestamps differ.
C29_PerPodClock ==
  run.status = "fulfilled" =>
    /\ Len(classifiedAt) = Len(run.value.nodes)
    /\ \A j \in 1..Len(run.value.nodes) :
         /\ classifiedAt[j] >= StartMs
         /\ j > 1 => classifiedAt[j] >= classifiedAt[j - 1]
         /\ run.value.nodes[j].status =
              StatusOfAge(classifiedAt[j]
                            - run.value.nodes[j].last_seen_timestamp * MsPerSecond,
                          cfg.fetchStats /\ run.value.nodes[j].stats = None)
    /\ \A i, j \in 1..Len(run.value.nodes) :
         (/\ SameOutcome(run.value.nodes[i], run.value.nodes[j])
          /\ run.value.nodes[j].last_seen_timestamp
               > run.value.nodes[i].last_seen_timestamp
          /\ classifiedAt[j] - classifiedAt[i]
               <= (run.value.nodes[j].last_seen_timestamp
                     - run.value.nodes[i].last_seen_timestamp) * MsPerSecond)
           => Health(run.value.nodes[j].status) >= Health(run.value.nodes[i].status)

\* PodB was classified when the run started and is online; the clock moved
\* on by two seconds before PodF, a second newer, was classified: degraded
C29_Witness ==
  /\ run.status = "fulfilled"
  /\ ~cfg.fetchStats
  /\ Len(run.value.nodes) = 2
  /\ PodOf(run.value.nodes[1]) = PodB
  /\ PodOf(run.value.nodes[2]) = PodF
  /\ classifiedAt = << StartMs, StartMs + 2 * TickMs >>
  /\ run.value.nodes[1].status = "online"
  /\ run.value.nodes[2].status = "degraded"

(***************************************************************************)
(* withRateLimit and withCronRateLimit (ratelimit.ts).  One request goes   *)
(* through one of the two wrappers: the limiter is looked up, its check    *)
(* settles, the handler is invoked and settles.  The record counts the     *)
(* invocations of the handler and keeps what each of them settled with.    *)
(***************************************************************************)
\* Ratelimit.slidingWindow(100, '1 m') and slidingWindow(10, '1 h')
ApiLimit == 100
CronLimit == 10
TooManyRequests == 429

\* the requests: x-forwarded-for and x-real-ip are absent, empty, or a
\* value; x-forwarded-for has two entries, with or without blanks or a
\* no-break space around the first, or is one blank entry before a comma, or
\* is one no-break space
RateLimitRequests ==
  [wrapper : {"api", "cron"},
   forwardedFor : {None, Some(""), Some("203.0.113.7, 10.0.0.1"),
                   Some(" 203.0.113.7 ,10.0.0.1"), Some(" ,10.0.0.1"),
                   Some("203.0.113.7 ,10.0.0.1"), Some(" ")},
   realIp : {None, Some(""), Some("198.51.100.2")}]

\* the characters String.prototype.trim removes, WhiteSpace and
\* LineTerminator of ECMAScript: TAB, LF, VT, FF, CR, SP, then U+00A0,
\* U+1680 and U+FEFF.  The others (U+2000 to U+200A, U+2028, U+2029,
\* U+202F, U+205F, U+3000) are in no string of the model
WhiteSpace ==
  {"\t", "\n", "\f", "\r", " ", "", " ", " ", "﻿"}

\* value.split(',')[0]: the value up to its first comma
FirstEntry(value) ==
  LET commas == {i \in 1..Len(value) : SubSeq(value, i, i) = ","}
  IN IF commas = {} THEN value
     ELSE SubSeq(value, 1, (CHOOSE i \in commas : \A k \in commas : i <= k) - 1)

\* value.trim(): the value without the white space at its two ends
Trim(value) ==
  LET kept == {i \in 1..Len(value) : SubSeq(value, i, i) \notin WhiteSpace}
  IN IF kept = {} THEN ""
     ELSE SubSeq(value,
                 CHOOSE i \in kept : \A k \in kept : i <= k,
                 CHOOSE i \in kept : \A k \in kept : k <= i)

\* if (value): a header that is there and is not the empty string
Truthy(header) == header # None /\ header[1] # ""

\* ratelimit.ts 104-119
getIpAddress(request) ==
  IF Truthy(request.forwardedFor) THEN Trim(FirstEntry(request.forwardedFor[1]))
  ELSE IF Truthy(request.realIp) THEN request.realIp[1]
  ELSE "unknown"

\* ratelimit.ts 137 and 195
Identifier(request) == request.wrapper \o ":" \o getIpAddress(request)

\* Math.ceil(ms / 1000)
CeilSeconds(ms) == (ms + MsPerSecond - 1) \div MsPerSecond

\* what rateLimiter.limit settles with: allowed, with requests left or with
\* none, refused, or the store cannot be reached
RedisDown == [name |-> "Error", message |-> "fetch failed"]
LimitOutcomes(wrapper) ==
  LET limit == IF wrapper = "api" THEN ApiLimit ELSE CronLimit
  IN {Fulfilled([success |-> TRUE, limit |-> limit, remaining |-> r,
                 reset |-> StartMs + 30500]) : r \in {0, limit - 1}}
     \cup {Fulfilled([success |-> FALSE, limit |-> limit, remaining |-> 0,
                      reset |-> StartMs + 30500]),
           Rejected(RedisDown)}

\* what one invocation of the handler settles with
HandlerFailed == [name |-> "Error", message |-> "collection failed"]
NoHeaders == [h \in {} |-> ""]
HandlerOutcomes ==
  {Fulfilled([status |-> HttpOk, body |-> "nodes", headers |-> NoHeaders]),
   Fulfilled([status |-> 500, body |-> "error", headers |-> NoHeaders]),
   Rejected(HandlerFailed)}

\* headers with one more name
SetHeader(headers, name, value) ==
  [h \in DOMAIN headers \cup {name} |-> IF h = name THEN value ELSE headers[h]]

\* ratelimit.ts 142-160 and 200-215: the response to a refused request; the
\* body's reset text is left out
LimitExceeded(wrapper, result, nowMs) ==
  LET common ==
        SetHeader(SetHeader(SetHeader(NoHeaders,
          "X-RateLimit-Limit", ToString(result.limit)),
          "X-RateLimit-Remaining", "0"),
          "X-RateLimit-Reset", ToString(result.reset))
  IN [status |-> TooManyRequests,
      body |-> [error |-> "Rate limit exceeded",
                message |-> IF wrapper = "api"
                              THEN "Too many requests. Please try again later."
                              ELSE "Cron endpoint rate limit exceeded",
                limit |-> result.limit, remaining |-> 0],
      headers |-> IF wrapper = "api"
                    THEN SetHeader(common, "Retry-After",
                                   ToString(CeilSeconds(result.reset - nowMs)))
                    ELSE common]

\* ratelimit.ts 167-169 and 220-222
WithRateHeaders(response, result) ==
  [response EXCEPT !.headers =
     SetHeader(SetHeader(SetHeader(response.headers,
       "X-RateLimit-Limit", ToString(result.limit)),
       "X-RateLimit-Remaining", ToString(result.remaining)),
       "X-RateLimit-Reset", ToString(result.reset))]

\* handler() is invoked from the place via
Invoke(r, via) ==
  [r EXCEPT !.phase = "handling", !.via = via, !.runs = r.runs + 1]

\* a mistaken wrapper: a refused request still gets its handler invoked
AfterLimitAlwaysRuns(r, settled, nowMs) ==
  IF settled.status = "rejected"
    THEN Invoke([r EXCEPT !.check = Some(settled)], "catch")
    ELSE Invoke([r EXCEPT !.check = Some(settled)], "allowed")

\* ratelimit.ts 139-164, 175: the check of the limiter has settled
AfterLimit(r, settled, nowMs) ==
  IF settled.status = "rejected"
    THEN Invoke([r EXCEPT !.check = Some(settled)], "catch")
    ELSE IF ~settled.value.success
      THEN [r EXCEPT !.check = Some(settled), !.phase = "done",
                     !.outcome = Fulfilled(LimitExceeded(r.request.wrapper,
                                                         settled.value, nowMs))]
      ELSE Invoke([r EXCEPT !.check = Some(settled)], "allowed")

\* ratelimit.ts 133, 164-175: the handler has settled.  Invoked because the
\* limiter is off or from the catch block, what it settles with is what the
\* wrapper settles with; awaited inside the try, its response gets the
\* headers and its failure is caught, and the catch block invokes it again
AfterHandler(r, settled) ==
  LET handled == [r EXCEPT !.handled = Append(r.handled, settled)]
  IN IF r.via = "allowed"
       THEN IF settled.status = "fulfilled"
              THEN [handled EXCEPT !.phase = "done",
                                   !.outcome = Fulfilled(WithRateHeaders(
                                                 settled.value, r.check[1].value))]
              ELSE Invoke(handled, "catch")
       ELSE [handled EXCEPT !.phase = "done", !.outcome = settled]

\* ratelimit.ts 125-137 and 183-195: a request enters its wrapper
Receive ==
  /\ rateLimited = None
  /\ \E request \in RateLimitRequests, enabled \in BOOLEAN :
       LET r == [request |-> request, enabled |-> enabled,
                 identifier |-> Identifier(request), phase |-> "checking",
                 via |-> "none", runs |-> 0, check |-> None, handled |-> <<>>,
                 outcome |-> Pending]
       IN rateLimited' = Some(IF enabled THEN r ELSE Invoke(r, "disabled"))
  /\ UNCHANGED << runVars, statusProbe, rpcCall, waiting, creditsFetch, nodeDetail >>

\* rateLimiter.limit(identifier) settles
LimitSettles ==
  /\ rateLimited # None
  /\ rateLimited[1].phase = "checking"
  /\ \E settled \in LimitOutcomes(rateLimited[1].request.wrapper) :
       rateLimited' = Some(AfterLimit(rateLimited[1], settled, now))
  /\ UNCHANGED << runVars, statusProbe, rpcCall, waiting, creditsFetch, nodeDetail >>

\* the handler settles
HandlerSettles ==
  /\ rateLimited # None
  /\ rateLimited[1].phase = "handling"
  /\ \E settled \in HandlerOutcomes :
       rateLimited' = Some(AfterHandler(rateLimited[1], settled))
  /\ UNCHANGED << runVars, statusProbe, rpcCall, waiting, creditsFetch, nodeDetail >>

InitRateLimit ==
  InitWith({c \in Configs : c.concurrency = 1 /\ c.fetchStats /\ ~c.fetchCredits})

NextRateLimit ==
  \/ Receive
  \/ LimitSettles
  \/ HandlerSettles

SpecRateLimit == InitRateLimit /\ [][NextRateLimit]_vars

TheRequest == rateLimited[1]
Answered == rateLimited # None /\ TheRequest.phase = "done"
\* the check of the limiter said this
Checked(success) ==
  /\ TheRequest.check # None
  /\ TheRequest.check[1].status = "fulfilled"
  /\ TheRequest.check[1].value.success = success
CheckFailed ==
  TheRequest.check # None /\ TheRequest.check[1].status = "rejected"

\* C30 as stated: the handler is never invoked for a refused request, whose
\* response is 429, and exactly once for an allowed request, with rate
\* limiting off, or when the check itself failed; a handler that throws
\* after the limiter allowed the request is not invoked a second time.
C30_Original ==
  /\ rateLimited # None => TheRequest.runs <= 1
  /\ Answered =>
       /\ Checked(FALSE) =>
            /\ TheRequest.runs = 0
            /\ TheRequest.outcome.status = "fulfilled"
            /\ TheRequest.outcome.value.status = TooManyRequests
       /\ (Checked(TRUE) \/ CheckFailed \/ ~TheRequest.enabled) =>
            TheRequest.runs = 1

\* C30, what the code keeps: the handler is never invoked for a refused
\* request, whose response is 429 with the limit headers; it is invoked
\* exactly once with rate limiting off and when the check failed, and what
\* it settles with is what the wrapper settles with; for an allowed request
\* it is invoked once when it returns, its response getting the limit
\* headers, and a second time, from the catch block, exactly when its first
\* invocation threw; never more than twice.
C30_HandlerRuns ==
  /\ rateLimited # None =>
       /\ TheRequest.runs <= 2
       /\ TheRequest.runs =
            Len(TheRequest.handled) + (IF TheRequest.phase = "handling" THEN 1 ELSE 0)
       /\ TheRequest.phase = "checking" => TheRequest.runs = 0
  /\ Answered =>
       /\ Checked(FALSE) =>
            /\ TheRequest.runs = 0
            /\ TheRequest.outcome.status = "fulfilled"
            /\ TheRequest.outcome.value.status = TooManyRequests
            /\ TheRequest.outcome.value.headers["X-RateLimit-Remaining"] = "0"
            /\ ("Retry-After" \in DOMAIN TheRequest.outcome.value.headers)
                 <=> TheRequest.request.wrapper = "api"
       /\ (CheckFailed \/ ~TheRequest.enabled) =>
            /\ TheRequest.runs = 1
            /\ TheRequest.outcome = TheRequest.handled[1]
       /\ Checked(TRUE) =>
            /\ TheRequest.runs =
                 IF TheRequest.handled[1].status = "rejected" THEN 2 ELSE 1
            /\ TheRequest.handled[1].status = "fulfilled" =>
                 /\ TheRequest.outcome.status = "fulfilled"
                 /\ TheRequest.outcome.value.status
                      = TheRequest.handled[1].value.status
                 /\ TheRequest.outcome.value.headers["X-RateLimit-Remaining"]
                      = ToString(TheRequest.check[1].value.remaining)
            /\ TheRequest.handled[1].status = "rejected" =>
                 TheRequest.outcome = TheRequest.handled[2]

\* the limiter allowed the request, the handler threw, the catch block
\* invoked it again and the second invocation returned 200
C30_Witness ==
  /\ Answered
  /\ TheRequest.request.wrapper = "api"
  /\ Checked(TRUE)
  /\ TheRequest.runs = 2
  /\ TheRequest.handled[1] = Rejected(HandlerFailed)
  /\ TheRequest.outcome.status = "fulfilled"
  /\ TheRequest.outcome.value.status = HttpOk
  /\ TheRequest.outcome.value.headers = NoHeaders


====
